---------------------------- MODULE Spec2Model ----------------------------
(***************************************************************************)
(* Thumbnail editor session (src/App.tsx): the version history with        *)
(* branch-on-write, in-place layout tweaks, the project list with          *)
(* snapshots, the persistent store, the compositor of                     *)
(* src/utils/imageUtils.ts, and the asynchronous operations (import,       *)
(* layer upload, remote edit, remote generate, chat, export, persist)      *)
(* whose continuations run with the values their handler closed over.      *)
(* downloaded is the raster the last export handed to the browser.         *)
(*                                                                         *)
(* Conventions.  currentIdx is 0-based as in the code (-1: none); TLA+     *)
(* sequences are 1-based, so the version at index i is history[i+1].       *)
(* Ids produced by Math.random() are fresh: versions, layers and projects *)
(* each draw theirs from a counter.                                        *)
(* Date.now() reads clock, which Tick advances.  Layout numbers are kept   *)
(* in hundredths for scale/stretch (1.0 = 100) and in percent for          *)
(* translate.  A handler together with the re-render and the layout-sync   *)
(* effect that follow it is one step.  countdown is 0 where the code       *)
(* holds null; countdownInterval tells whether the interval of the         *)
(* countdown is set (countdownIntervalRef), and intervals is the number   *)
(* of intervals scheduled in the window by startAutoCapture.               *)
(***************************************************************************)
EXTENDS Integers, Sequences, FiniteSets, TLC

VARIABLES
  history, currentIdx, baseLayout, activeLayerId, editMode, prompt,
  isProcessing, error,
  projects, activeProjectId, db, saveIndicator,
  modal, isImportModalOpen, importTarget, isCameraActive, capturedImage,
  countdown, countdownInterval, intervals,
  ops, saves, loading,
  nextVersionId, nextLayerId, nextProjectId, clock,
  downloaded

sessionVars == <<history, currentIdx, baseLayout, activeLayerId, editMode,
                 prompt, isProcessing, error>>
projVars    == <<projects, activeProjectId, db, saveIndicator>>
uiVars      == <<modal, isImportModalOpen, importTarget, isCameraActive,
                 capturedImage, countdown, countdownInterval, intervals>>
asyncVars   == <<ops, saves, loading>>
idVars      == <<nextVersionId, nextLayerId, nextProjectId>>
metaVars    == <<idVars, clock, downloaded>>
vars        == <<sessionVars, projVars, uiVars, asyncVars, metaVars>>

----------------------------------------------------------------------------
(* Bounds of the model *)

MaxVersions == 3   \* Spec: versions created in one run
MaxLayers   == 1   \* Spec: layers created in one run
MaxOps      == 2   \* Spec: asynchronous operations outstanding at once
MaxEditVersions == 4   \* SpecEdit: versions created in one run
MaxEditLayers   == 1   \* SpecEdit: layers created in one run
MaxTweakVersions == 3  \* SpecTweak: versions created in one run
MaxTweakLayers   == 2  \* SpecTweak: layers created in one run
MaxFailVersions == 3   \* SpecFail: versions created in one run
MaxFailOps      == 2   \* SpecFail: asynchronous operations outstanding at once
MaxBusyVersions == 2   \* SpecBusy: versions created in one run
MaxBusyLayers   == 1   \* SpecBusy: layers created in one run
MaxBusyOps      == 2   \* SpecBusy: asynchronous operations outstanding at once
MaxSnapVersions == 1   \* SpecSnap: versions created in one run
MaxSnapSaves    == 1   \* SpecSnap: persistProjects calls outstanding at once
MaxSnapClock    == 1   \* SpecSnap: the latest time
MaxProjVersions == 2   \* SpecProj: versions created in one run
MaxProjProjects == 1   \* SpecProj: projects created in one run
MaxProjOps      == 1   \* SpecProj: asynchronous operations outstanding at once
MaxProjSaves    == 1   \* SpecProj: persistProjects calls outstanding at once
MaxProjClock    == 1   \* SpecProj: the latest time
MaxSessVersions == 2   \* SpecSess: versions created in one run
MaxSessProjects == 1   \* SpecSess: projects created in one run
MaxSessOps      == 1   \* SpecSess: asynchronous operations outstanding at once
MaxSessSaves    == 1   \* SpecSess: persistProjects calls outstanding at once
MaxLoadVersions == 1   \* SpecLoad: versions created in one run
MaxLoadProjects == 1   \* SpecLoad: projects of the list that are loaded
MaxLoadOps      == 1   \* SpecLoad: asynchronous operations outstanding at once
MaxLoadSaves    == 1   \* SpecLoad: persistProjects calls outstanding at once
MaxStoreVersions == 3  \* SpecStore: versions created in one run
MaxStoreProjects == 2  \* SpecStore: projects created in one run
MaxStoreOps      == 1  \* SpecStore: asynchronous operations outstanding at once
MaxStoreSnapshots  == 1  \* SpecStore: milestones of a project
MaxStoreSaves    == 1  \* SpecStore: persistProjects calls outstanding at once
MaxComposeVersions == 2  \* SpecCompose: versions created in one run
MaxComposeOps      == 1  \* SpecCompose: asynchronous operations outstanding
MaxSubmitVersions  == 2  \* SpecSubmit: versions created in one run
MaxSubmitOps       == 1  \* SpecSubmit: asynchronous operations outstanding
MaxCameraVersions  == 2  \* SpecCamera: versions created in one run
MaxCameraLayers    == 1  \* SpecCamera: layers created in one run
MaxLayoutVersions  == 2  \* SpecLayout: versions created in one run
MaxLayoutOps       == 1  \* SpecLayout: asynchronous operations outstanding
MaxIsolateVersions  == 3 \* SpecIsolate: versions created in one run
MaxIsolateLayers    == 2 \* SpecIsolate: layers created in one run
MaxIsolateProjects  == 1 \* SpecIsolate: projects created in one run
MaxIsolateSnapshots == 1 \* SpecIsolate: milestones of a project
MaxRemoveVersions  == 4  \* SpecRemove: versions created in one run
MaxRemoveLayers    == 2  \* SpecRemove: layers created in one run
MaxRasterVersions  == 3  \* SpecRaster: versions created in one run
MaxRasterLayers    == 2  \* SpecRaster: layers created in one run

(* Program constants *)

MAX_SNAPSHOTS == 12
AUTO_CAPTURE_SECONDS == 5   \* startAutoCapture(5)
BASE          == 0    \* activeLayerId 'base'
NO_PROJECT    == 0    \* activeProjectId null
NO_VERSION    == -1   \* currentIdx: no active version

----------------------------------------------------------------------------
(* Values *)

DEFAULT_LAYOUT ==
  [scale |-> 100, stretchX |-> 100, stretchY |-> 100,
   translateX |-> 0, translateY |-> 0]

TweakKeys   == {"translateX"}              \* slider moved in the model
TweakValues == {50}                        \* slider position used

EditModes == {"styles", "effects", "transform", "chat"}

FileUrls     == {"fileA", "corrupt"}       \* data URIs of picked files
CAMERA_URL   == "camera"                   \* canvas.toDataURL of a frame
EDIT_URL     == "edited"                   \* result of editImage
GENERATE_URL == "generated"                \* result of generateNewImage
Decodable(url) == url # "corrupt"          \* loadImage(url) resolves

TypedPrompts  == {"", "glow"}              \* contents of the prompt box
QUICK_PROMPT  == "quick"                   \* a QUICK_ACTIONS prompt
EFFECT_PROMPT == "fx"                      \* a CINEMATIC_EFFECTS prompt
TEMPLATE      == "tmpl"                    \* a SCRATCH_TEMPLATES prompt

NO_ERROR        == ""
ERR_IMPORT      == "Failed to import asset."
ERR_LAYER       == "Failed to add layer."
ERR_EDIT        == "Visual synthesis failed. Please try again."
ERR_GENERATE    == "Background generation failed."
ERR_CHAT        == "Coach is currently busy with another creator."
ERR_STORAGE     == "Storage error. Database might be full."

(* String.prototype.trim on the prompts of the model *)
Trim(s) == IF s = " " THEN "" ELSE s

(* a || b on strings: the empty string is falsy *)
OrElse(a, b) == IF a # "" THEN a ELSE b

----------------------------------------------------------------------------
(* Derived values of a render *)

(* currentVersion (App.tsx:107) is non-null *)
HasCurrent(h, i) == i >= 0 /\ i < Len(h)

CurrentVersion(h, i) == h[i + 1]

(* Array.prototype.slice(0, n), n >= 0 *)
Slice0(s, n) == SubSeq(s, 1, IF n < Len(s) THEN n ELSE Len(s))

LayerIds(v) == {v.layers[k].id : k \in 1..Len(v.layers)}

(* The layout-sync effect left out: the session keeps the base layout    *)
(* the handler set                                                         *)
SyncedLayoutNever(h, i, bl, depsChanged) == bl

(* The layout-sync effect (App.tsx:111-115): it runs after a render in   *)
(* which history or currentIdx changed, and then installs the current    *)
(* version's baseLayout.  bl is the base layout the handler left.        *)
SyncedLayout(h, i, bl, depsChanged) ==
  IF depsChanged /\ HasCurrent(h, i) THEN CurrentVersion(h, i).baseLayout
  ELSE bl


----------------------------------------------------------------------------
(* Pure parts of the handlers *)

NewVersion(id, url, p, layers, bl, ts) ==
  [id |-> id, url |-> url, layers |-> layers, baseLayout |-> bl,
   prompt |-> p, timestamp |-> ts]

(* addToHistory without the slice: the new version is put behind the whole *)
(* history                                                                  *)
AddToHistoryNoBranch(h, i, bl, id, ts, url, p, layers, custom) ==
  LET newVersion == [id |-> id, url |-> url, layers |-> layers,
                     baseLayout |-> IF custom # <<>> THEN custom[1] ELSE bl,
                     prompt |-> p, timestamp |-> ts]
      newHistory == h \o <<newVersion>>
  IN  [history |-> newHistory, currentIdx |-> Len(newHistory) - 1]

(* addToHistory (App.tsx:181-193) run in a render whose history, currentIdx *)
(* and baseLayout are h, i and bl.  custom is <<>> when customBaseLayout is *)
(* not passed and <<layout>> when it is.                                    *)
AddToHistory(h, i, bl, id, ts, url, p, layers, custom) ==
  LET newVersion == NewVersion(id, url, p, layers,
                               IF custom # <<>> THEN custom[1] ELSE bl, ts)
      newHistory == Slice0(h, i + 1) \o <<newVersion>>
  IN  [history |-> newHistory, currentIdx |-> Len(newHistory) - 1]

(* The tweak without the test on the layer's id: every layer moves *)
TweakAllLayers(layers, id, key, value) ==
  [n \in 1..Len(layers) |->
     [layers[n] EXCEPT !.layout = [layers[n].layout EXCEPT ![key] = value]]]

(* The layer list with key := value in the layout of the layer id *)
TweakLayers(layers, id, key, value) ==
  [n \in 1..Len(layers) |->
     IF layers[n].id = id
     THEN [layers[n] EXCEPT !.layout = [layers[n].layout EXCEPT ![key] = value]]
     ELSE layers[n]]

(* updateActiveTransform that writes into the layer object itself, which  *)
(* every version that carried the layer forward holds                      *)
UpdateActiveTransformShared(h, i, bl, active, key, value) ==
  IF active = BASE
  THEN LET nextLayout == [bl EXCEPT ![key] = value] IN
       IF HasCurrent(h, i)
       THEN [history |-> [h EXCEPT ![i + 1] =
                            [CurrentVersion(h, i) EXCEPT !.baseLayout = nextLayout]],
             baseLayout |-> nextLayout, setHistory |-> TRUE]
       ELSE [history |-> h, baseLayout |-> nextLayout, setHistory |-> FALSE]
  ELSE IF HasCurrent(h, i)
       THEN [history |-> [n \in 1..Len(h) |->
                            [h[n] EXCEPT
                               !.layers = TweakLayers(h[n].layers, active,
                                                      key, value)]],
             baseLayout |-> bl, setHistory |-> TRUE]
       ELSE [history |-> h, baseLayout |-> bl, setHistory |-> FALSE]

(* updateActiveTransform (App.tsx:134-152): the history and base layout it *)
(* sets, and whether it called setHistory.                                 *)
UpdateActiveTransform(h, i, bl, active, key, value) ==
  IF active = BASE
  THEN LET nextLayout == [bl EXCEPT ![key] = value] IN
       IF HasCurrent(h, i)
       THEN [history |-> [h EXCEPT ![i + 1] =
                            [CurrentVersion(h, i) EXCEPT !.baseLayout = nextLayout]],
             baseLayout |-> nextLayout, setHistory |-> TRUE]
       ELSE [history |-> h, baseLayout |-> nextLayout, setHistory |-> FALSE]
  ELSE IF HasCurrent(h, i)
       THEN [history |-> [h EXCEPT ![i + 1] =
                            [CurrentVersion(h, i) EXCEPT
                               !.layers = TweakLayers(CurrentVersion(h, i).layers,
                                                      active, key, value)]],
             baseLayout |-> bl, setHistory |-> TRUE]
       ELSE [history |-> h, baseLayout |-> bl, setHistory |-> FALSE]

(* The filter with its test inverted: only the layer id is kept *)
OnlyLayer(layers, id) == SelectSeq(layers, LAMBDA l : l.id = id)

(* currentVersion.layers.filter(l => l.id !== id) (App.tsx:315) *)
WithoutLayer(layers, id) == SelectSeq(layers, LAMBDA l : l.id # id)

(* A layer whose id is the number in its name instead of a fresh one *)
NewLayerNumbered(id, url, name) ==
  [id |-> name[2] + 1, url |-> url, name |-> name,
   layout |-> [DEFAULT_LAYOUT EXCEPT !.scale = 50]]

(* The layer handleLayerUpload (App.tsx:294-299) and confirmCapture       *)
(* (App.tsx:371-376) build; name is <<label, number>>.                     *)
NewLayer(id, url, name) ==
  [id |-> id, url |-> url, name |-> name,
   layout |-> [DEFAULT_LAYOUT EXCEPT !.scale = 50]]

(* projects.find(p => p.id === activeProjectId) is defined *)
HasProject(ps, pid) == \E k \in 1..Len(ps) : ps[k].id = pid

ProjectOf(ps, pid) == ps[CHOOSE k \in 1..Len(ps) : ps[k].id = pid]

(* storeCurrentProjectState that stores the versions before the current   *)
(* one                                                                     *)
StoreProjectsBeforeCurrent(ps, active, h, i, newId, ts) ==
  IF active # NO_PROJECT
  THEN [projects |-> [k \in 1..Len(ps) |->
                       IF ps[k].id = active
                       THEN [ps[k] EXCEPT !.thumbnailUrl = CurrentVersion(h, i).url,
                                          !.revisionStack = Slice0(h, i),
                                          !.timestamp = ts]
                       ELSE ps[k]],
        activeProjectId |-> active, usedId |-> FALSE]
  ELSE [projects |-> <<[id |-> newId, name |-> Len(ps) + 1,
                        thumbnailUrl |-> CurrentVersion(h, i).url,
                        timestamp |-> ts, revisionStack |-> Slice0(h, i),
                        snapshots |-> <<>>]>> \o ps,
        activeProjectId |-> newId, usedId |-> TRUE]

(* storeCurrentProjectState (App.tsx:199-219): the project list it builds *)
(* and the active project id it leaves.                                    *)
StoreProjects(ps, active, h, i, newId, ts) ==
  IF active # NO_PROJECT
  THEN [projects |-> [k \in 1..Len(ps) |->
                       IF ps[k].id = active
                       THEN [ps[k] EXCEPT !.thumbnailUrl = CurrentVersion(h, i).url,
                                          !.revisionStack = h,
                                          !.timestamp = ts]
                       ELSE ps[k]],
        activeProjectId |-> active, usedId |-> FALSE]
  ELSE [projects |-> <<[id |-> newId, name |-> Len(ps) + 1,
                        thumbnailUrl |-> CurrentVersion(h, i).url,
                        timestamp |-> ts, revisionStack |-> h,
                        snapshots |-> <<>>]>> \o ps,
        activeProjectId |-> newId, usedId |-> TRUE]

(* createSnapshot without the slice: the list of milestones only grows *)
SnapshotProjectsNoCap(ps, active, cv, ts) ==
  [k \in 1..Len(ps) |->
     IF ps[k].id = active
     THEN [ps[k] EXCEPT !.snapshots =
             <<[cv EXCEPT !.timestamp = ts]>> \o ps[k].snapshots]
     ELSE ps[k]]

(* createSnapshot that also stamps the project with the time of the call *)
SnapshotProjectsStamped(ps, active, cv, ts) ==
  [k \in 1..Len(ps) |->
     IF ps[k].id = active
     THEN [ps[k] EXCEPT !.snapshots =
             Slice0(<<[cv EXCEPT !.timestamp = ts]>> \o ps[k].snapshots,
                    MAX_SNAPSHOTS),
                        !.timestamp = ts + 1]
     ELSE ps[k]]

(* createSnapshot (App.tsx:259-262): the project list it builds *)
SnapshotProjects(ps, active, cv, ts) ==
  LET currentSnapshots == IF HasProject(ps, active)
                          THEN ProjectOf(ps, active).snapshots ELSE <<>>
      newSnapshot      == [cv EXCEPT !.timestamp = ts]
      updatedSnapshots == Slice0(<<newSnapshot>> \o currentSnapshots, MAX_SNAPSHOTS)
  IN  [k \in 1..Len(ps) |->
         IF ps[k].id = active
         THEN [ps[k] EXCEPT !.snapshots = updatedSnapshots]
         ELSE ps[k]]

(* projects.filter(p => p.id !== id) (App.tsx:245) *)
WithoutProject(ps, id) == SelectSeq(ps, LAMBDA p : p.id # id)

(* saveProjectsToDB that adds the first project of the list only *)
SaveProjectsToDBFirst(ps) == SubSeq(ps, 1, 1)

(* saveProjectsToDB (App.tsx:43-62): the contents of the object store     *)
(* after clear() and one add(p) for each project.  The store is keyed by  *)
(* id (keyPath, App.tsx:35) and holds its records in the order of their   *)
(* keys, whatever the order of the adds.                                   *)
SaveProjectsToDB(ps) ==
  [n \in 1..Len(ps) |->
     ps[CHOOSE k \in 1..Len(ps) :
          Cardinality({j \in 1..Len(ps) : ps[j].id < ps[k].id}) = n - 1]]

(* loadProjectsFromDB (App.tsx:64-73): store.getAll(), the records in the *)
(* order of their keys                                                     *)
LoadProjectsFromDB(store) == [n \in 1..Len(store) |-> store[n]]

----------------------------------------------------------------------------
(* The compositor (imageUtils.ts:35-71).  A raster is the sequence of the *)
(* opaque rectangles painted on the canvas, in the order of painting: a   *)
(* pixel shows the last rectangle that covers it.  Lengths are in units   *)
(* of 1/PX pixel, which keeps the arithmetic on hundredths exact.          *)

CANVAS_WIDTH  == 1280
CANVAS_HEIGHT == 720
PX            == 20000

LayoutKeys == {"scale", "stretchX", "stretchY", "translateX", "translateY"}

(* img.width and img.height of the image loadImage resolves to            *)
(* (imageUtils.ts:22-30): the camera's frame fills the canvas, a picked   *)
(* file is smaller                                                         *)
ImageSize(url) ==
  IF url = "fileA" THEN [width |-> 640, height |-> 360]
  ELSE [width |-> 1280, height |-> 720]

(* ctx.fillRect(0, 0, canvas.width, canvas.height) with fillStyle         *)
(* "#000000" (imageUtils.ts:44-45)                                         *)
BlackFill ==
  [src |-> "#000000", x |-> 0, y |-> 0,
   w |-> CANVAS_WIDTH * PX, h |-> CANVAS_HEIGHT * PX]

(* drawWithLayout that puts the image's corner at the translate offset,   *)
(* without centring it                                                     *)
DrawWithLayoutUncentred(url, layout) ==
  LET img     == ImageSize(url)
      targetW == img.width * layout.scale * layout.stretchX * 2
      targetH == img.height * layout.scale * layout.stretchY * 2
  IN  IF LayoutKeys \subseteq DOMAIN layout
      THEN <<[src |-> url,
              x |-> layout.translateX * CANVAS_WIDTH * (PX \div 100),
              y |-> layout.translateY * CANVAS_HEIGHT * (PX \div 100),
              w |-> targetW, h |-> targetH]>>
      ELSE <<>>

(* drawWithLayout (imageUtils.ts:50-56): what drawImage paints.  A field  *)
(* the layout does not have reads as undefined and makes every argument   *)
(* it enters NaN; each field enters x or y, and drawImage with a NaN      *)
(* argument paints nothing.                                                *)
DrawWithLayout(url, layout) ==
  LET img     == ImageSize(url)
      targetW == img.width * layout.scale * layout.stretchX * 2
      targetH == img.height * layout.scale * layout.stretchY * 2
      x       == (CANVAS_WIDTH * PX - targetW) \div 2
                   + layout.translateX * CANVAS_WIDTH * (PX \div 100)
      y       == (CANVAS_HEIGHT * PX - targetH) \div 2
                   + layout.translateY * CANVAS_HEIGHT * (PX \div 100)
  IN  IF LayoutKeys \subseteq DOMAIN layout
      THEN <<[src |-> url, x |-> x, y |-> y, w |-> targetW, h |-> targetH]>>
      ELSE <<>>

(* composeImage whose loop over the layers ends at the first layer that   *)
(* does not load                                                           *)
ComposeImageStops(imageUrl, bl, layers) ==
  LET bad    == {n \in 1..Len(layers) : ~Decodable(layers[n].url)}
      loaded == IF bad = {} THEN layers
                ELSE SubSeq(layers, 1,
                            (CHOOSE n \in bad : \A m \in bad : n <= m) - 1)
  IN  <<BlackFill>> \o DrawWithLayout(imageUrl, bl)
        \o [n \in 1..Len(loaded) |->
              DrawWithLayout(loaded[n].url, loaded[n].layout)[1]]

(* composeImage that draws the layers from the last to the first *)
ComposeImageReversed(imageUrl, bl, layers) ==
  LET loaded  == SelectSeq(layers, LAMBDA l : Decodable(l.url))
      painted == SelectSeq(loaded, LAMBDA l :
                             DrawWithLayout(l.url, l.layout) # <<>>)
  IN  <<BlackFill>> \o DrawWithLayout(imageUrl, bl)
        \o [n \in 1..Len(painted) |->
              DrawWithLayout(painted[Len(painted) + 1 - n].url,
                             painted[Len(painted) + 1 - n].layout)[1]]

(* composeImage (imageUtils.ts:35-71) once the base image has loaded: the *)
(* black fill, the base, and one after the other the layers whose image   *)
(* loads (imageUtils.ts:61-68); a layer whose image does not load is      *)
(* skipped.                                                                *)
ComposeImage(imageUrl, bl, layers) ==
  LET loaded  == SelectSeq(layers, LAMBDA l : Decodable(l.url))
      painted == SelectSeq(loaded, LAMBDA l :
                             DrawWithLayout(l.url, l.layout) # <<>>)
  IN  <<BlackFill>> \o DrawWithLayout(imageUrl, bl)
        \o [n \in 1..Len(painted) |->
              DrawWithLayout(painted[n].url, painted[n].layout)[1]]

(* The layout with the defaults of the preview (App.tsx:591, 599) in the  *)
(* place of the fields it does not have                                    *)
WithDefaults(layout) ==
  [key \in LayoutKeys |->
     IF key \in DOMAIN layout THEN layout[key] ELSE DEFAULT_LAYOUT[key]]

(* The pixels looked at: a grid over the canvas with its four corners *)
SampleColumns == {0, 160, 320, 480, 640, 800, 960, 1120, CANVAS_WIDTH - 1}
SampleRows    == {0, 90, 180, 270, 360, 450, 540, 630, CANVAS_HEIGHT - 1}

(* The rectangle covers the centre of the pixel in column c, row r *)
Covers(rect, c, r) ==
  /\ rect.x <= c * PX + PX \div 2 /\ c * PX + PX \div 2 < rect.x + rect.w
  /\ rect.y <= r * PX + PX \div 2 /\ r * PX + PX \div 2 < rect.y + rect.h

(* The position in the raster of what the pixel shows, 0 for a pixel that *)
(* nothing was painted on                                                  *)
TopAt(raster, c, r) ==
  LET over == {n \in 1..Len(raster) : Covers(raster[n], c, r)} IN
    IF over = {} THEN 0 ELSE CHOOSE n \in over : \A m \in over : m <= n


----------------------------------------------------------------------------
(* Initial state: the state after construction (App.tsx:76-105), with the  *)
(* initial loadProjectsFromDB (App.tsx:121-123) outstanding and the store  *)
(* holding what an earlier session saved.                                  *)

NoModal == [kind |-> "none", id |-> NO_PROJECT, projects |-> <<>>,
            active |-> NO_PROJECT]

StoredVersion == NewVersion(91, "fileA", "Subject Upload", <<>>, DEFAULT_LAYOUT, 0)

StoredProject == [id |-> 90, name |-> 1, thumbnailUrl |-> "fileA",
                  timestamp |-> 0, revisionStack |-> <<StoredVersion>>,
                  snapshots |-> <<>>]

InitialStores == {<<>>, <<StoredProject>>}

InitialSession ==
  /\ history = <<>>
  /\ currentIdx = NO_VERSION
  /\ baseLayout = DEFAULT_LAYOUT
  /\ activeLayerId = BASE
  /\ editMode = "styles"
  /\ prompt = ""
  /\ isProcessing = FALSE
  /\ error = NO_ERROR
  /\ projects = <<>>
  /\ activeProjectId = NO_PROJECT
  /\ saveIndicator = FALSE
  /\ modal = NoModal
  /\ isImportModalOpen = FALSE
  /\ importTarget = "base"
  /\ isCameraActive = FALSE
  /\ capturedImage = ""
  /\ countdown = 0
  /\ countdownInterval = FALSE
  /\ intervals = 0
  /\ ops = <<>>
  /\ saves = <<>>
  /\ loading = TRUE
  /\ nextVersionId = 1
  /\ nextLayerId = 1
  /\ nextProjectId = 1
  /\ clock = 0
  /\ downloaded = <<>>

Init == InitialSession /\ db \in InitialStores

----------------------------------------------------------------------------
(* What the page lets the user reach (the JSX of App.tsx:473-815) *)

(* No confirmation modal (App.tsx:483) and no import dialog (App.tsx:496), *)
(* both full-screen overlays, are shown.                                    *)
Interactive == modal.kind = "none" /\ ~isImportModalOpen

(* The editor is rendered when currentVersion exists (App.tsx:585), the   *)
(* landing page otherwise (App.tsx:645).                                   *)
Editor  == Interactive /\ HasCurrent(history, currentIdx)
Landing == Interactive /\ ~HasCurrent(history, currentIdx)

(* Bounds of a run.  The continuations of the outstanding operations will *)
(* create one version each, and one layer each for a layer upload: n more *)
(* versions (layers, projects) fit under max.                             *)
LayerOps == Len(SelectSeq(ops, LAMBDA op : op.kind = "layer"))
ContentOps == Len(SelectSeq(ops, LAMBDA op : op.kind \notin {"chat", "export"}))

VersionsLeft(n, max) == (nextVersionId - 1) + ContentOps + n <= max
LayersLeft(n, max)   == (nextLayerId - 1) + LayerOps + n <= max
ProjectsLeft(n, max) == (nextProjectId - 1) + n <= max

OpsRoom(maxOps) == Len(ops) < maxOps

SavesRoom(maxSaves) == Len(saves) < maxSaves

Op(kind, stage, p, url) ==
  [kind |-> kind, stage |-> stage, hist |-> history, idx |-> currentIdx,
   bl |-> baseLayout, p |-> p, url |-> url]

Without(s, k) == SubSeq(s, 1, k - 1) \o SubSeq(s, k + 1, Len(s))

Save(payload, cont, id, active) ==
  [payload |-> payload, cont |-> cont, id |-> id, active |-> active]

(* executeStartNewProject (App.tsx:154-165) *)
ExecuteStartNewProject ==
  /\ history' = <<>>
  /\ currentIdx' = NO_VERSION
  /\ activeProjectId' = NO_PROJECT
  /\ baseLayout' = DEFAULT_LAYOUT
  /\ activeLayerId' = BASE
  /\ prompt' = ""
  /\ error' = NO_ERROR
  /\ modal' = NoModal

----------------------------------------------------------------------------
(* Time and the initial load *)

(* Time passes: a later Date.now() returns more *)
Tick ==
  /\ clock' = clock + 1
  /\ UNCHANGED <<sessionVars, projVars, uiVars, asyncVars, idVars, downloaded>>

(* loadProjectsFromDB().then(setProjects) (App.tsx:122) *)
InitialLoadDone ==
  /\ loading
  /\ loading' = FALSE
  /\ projects' = LoadProjectsFromDB(db)
  /\ UNCHANGED <<sessionVars, activeProjectId, db, saveIndicator, uiVars,
                 ops, saves, metaVars>>

(* getDB or getAll rejects (App.tsx:39, 71): nothing handles it *)
InitialLoadFail ==
  /\ loading
  /\ loading' = FALSE
  /\ UNCHANGED <<sessionVars, projVars, uiVars, ops, saves, metaVars>>

----------------------------------------------------------------------------
(* Synchronous handlers of the editor *)

(* The prompt box's onChange (App.tsx:628) *)
TypePrompt(p) ==
  /\ Editor
  /\ p # prompt
  /\ prompt' = p
  /\ UNCHANGED <<history, currentIdx, baseLayout, activeLayerId, editMode,
                 isProcessing, error, projVars, uiVars, asyncVars, metaVars>>

(* The mode tabs (App.tsx:697-699) *)
SetEditMode(m) ==
  /\ Editor
  /\ m # editMode
  /\ editMode' = m
  /\ UNCHANGED <<history, currentIdx, baseLayout, activeLayerId, prompt,
                 isProcessing, error, projVars, uiVars, asyncVars, metaVars>>

(* setCurrentIdx that also cuts history behind the selected entry *)
SetCurrentIdxCallCuts(i) ==
  /\ currentIdx' = i
  /\ history' = Slice0(history, IF i < 0 THEN 0 ELSE i + 1)
  /\ baseLayout' = SyncedLayout(history', i, baseLayout, i # currentIdx)
  /\ UNCHANGED <<activeLayerId, editMode, prompt, isProcessing,
                 error, projVars, uiVars, asyncVars, metaVars>>

(* setCurrentIdx(i) (App.tsx:77) with any integer, followed by the        *)
(* layout-sync effect (App.tsx:107-115)                                    *)
SetCurrentIdxCall(i) ==
  /\ currentIdx' = i
  /\ baseLayout' = SyncedLayout(history, i, baseLayout, i # currentIdx)
  /\ UNCHANGED <<history, activeLayerId, editMode, prompt, isProcessing,
                 error, projVars, uiVars, asyncVars, metaVars>>

(* A revision-stack button (App.tsx:575-576): one per entry of history *)
SelectVersion(i) ==
  /\ Editor
  /\ i \in 0..(Len(history) - 1)
  /\ SetCurrentIdxCall(i)

(* setActiveLayerId from the preview (App.tsx:593, 604; covered by the    *)
(* busy overlay of App.tsx:608) or from the layer list of the transform   *)
(* panel (App.tsx:730, 736)                                               *)
SetActiveLayerId(id) ==
  /\ Editor
  /\ editMode = "transform" \/ ~isProcessing
  /\ id \in {BASE} \cup LayerIds(CurrentVersion(history, currentIdx))
  /\ id # activeLayerId
  /\ activeLayerId' = id
  /\ UNCHANGED <<history, currentIdx, baseLayout, editMode, prompt,
                 isProcessing, error, projVars, uiVars, asyncVars, metaVars>>

(* A slider of the transform panel (App.tsx:753-773) *)
TweakLayout(key, value) ==
  /\ Editor
  /\ editMode = "transform"
  /\ LET r == UpdateActiveTransform(history, currentIdx, baseLayout,
                                    activeLayerId, key, value) IN
       /\ history' = r.history
       /\ baseLayout' = SyncedLayout(r.history, currentIdx, r.baseLayout,
                                     r.setHistory)
  /\ UNCHANGED <<currentIdx, activeLayerId, editMode, prompt, isProcessing,
                 error, projVars, uiVars, asyncVars, metaVars>>

(* removeLayer (App.tsx:312-318) called with an id, whichever: it returns *)
(* at once without a current version, and does not look for the id among *)
(* the layers                                                              *)
RemoveLayerCall(id) ==
  /\ HasCurrent(history, currentIdx)
  /\ LET cv == CurrentVersion(history, currentIdx)
         r  == AddToHistory(history, currentIdx, baseLayout, nextVersionId,
                            clock, cv.url, "Removed Layer",
                            WithoutLayer(cv.layers, id), <<>>) IN
       /\ history' = r.history
       /\ currentIdx' = r.currentIdx
       /\ baseLayout' = SyncedLayout(r.history, r.currentIdx, baseLayout, TRUE)
  /\ activeLayerId' = IF activeLayerId = id THEN BASE ELSE activeLayerId
  /\ nextVersionId' = nextVersionId + 1
  /\ UNCHANGED <<editMode, prompt, isProcessing, error, projVars, uiVars,
                 asyncVars, nextLayerId, nextProjectId, clock, downloaded>>

(* removeLayer from the layer list of the transform panel (App.tsx:738-740), *)
(* which has a button for each layer of the current version                *)
RemoveLayer(id) ==
  /\ Editor
  /\ editMode = "transform"
  /\ id \in LayerIds(CurrentVersion(history, currentIdx))
  /\ RemoveLayerCall(id)

(* The error toast's close button (App.tsx:479) *)
DismissError ==
  /\ error # NO_ERROR
  /\ error' = NO_ERROR
  /\ UNCHANGED <<history, currentIdx, baseLayout, activeLayerId, editMode,
                 prompt, isProcessing, projVars, uiVars, asyncVars, metaVars>>


(* The page is loaded again while nothing is outstanding: the state after *)
(* construction (App.tsx:76-105), the store as it is, the initial load    *)
(* (App.tsx:121-123) outstanding                                           *)
Reload ==
  /\ ops = <<>> /\ saves = <<>>
  /\ history' = <<>>
  /\ currentIdx' = NO_VERSION
  /\ baseLayout' = DEFAULT_LAYOUT
  /\ activeLayerId' = BASE
  /\ editMode' = "styles"
  /\ prompt' = ""
  /\ isProcessing' = FALSE
  /\ error' = NO_ERROR
  /\ projects' = <<>>
  /\ activeProjectId' = NO_PROJECT
  /\ saveIndicator' = FALSE
  /\ modal' = NoModal
  /\ isImportModalOpen' = FALSE
  /\ importTarget' = "base"
  /\ isCameraActive' = FALSE
  /\ capturedImage' = ""
  /\ countdown' = 0
  /\ countdownInterval' = FALSE
  /\ intervals' = 0
  /\ loading' = TRUE
  /\ UNCHANGED <<db, ops, saves, metaVars>>

----------------------------------------------------------------------------
(* Projects *)

(* The logo (App.tsx:551) *)
LogoClick ==
  /\ Interactive
  /\ ExecuteStartNewProject
  /\ UNCHANGED <<editMode, isProcessing, projects, db, saveIndicator,
                 isImportModalOpen, importTarget, isCameraActive,
                 capturedImage, countdown, countdownInterval, intervals, asyncVars,
                 metaVars>>

(* startNewProject (App.tsx:167-179) from the header button (App.tsx:558), *)
(* rendered when currentVersion exists, so history is not empty            *)
StartNewProject ==
  /\ Editor
  /\ Len(history) > 0
  /\ modal' = [NoModal EXCEPT !.kind = "new"]
  /\ UNCHANGED <<sessionVars, projVars, isImportModalOpen, importTarget,
                 isCameraActive, capturedImage, countdown, countdownInterval, intervals,
                 asyncVars, metaVars>>

(* The modal's Cancel (App.tsx:490) *)
ModalCancel ==
  /\ modal.kind # "none"
  /\ modal' = NoModal
  /\ UNCHANGED <<sessionVars, projVars, isImportModalOpen, importTarget,
                 isCameraActive, capturedImage, countdown, countdownInterval, intervals,
                 asyncVars, metaVars>>

(* The modal's confirm button (App.tsx:489) with onConfirm =               *)
(* executeStartNewProject (App.tsx:174)                                    *)
ModalConfirmNew ==
  /\ modal.kind = "new"
  /\ ExecuteStartNewProject
  /\ UNCHANGED <<editMode, isProcessing, projects, db, saveIndicator,
                 isImportModalOpen, importTarget, isCameraActive,
                 capturedImage, countdown, countdownInterval, intervals, asyncVars,
                 metaVars>>

(* storeCurrentProjectState (App.tsx:195-225) up to its await, from the   *)
(* header button (App.tsx:559)                                             *)
StoreCurrentProjectState ==
  /\ Editor
  /\ LET r == StoreProjects(projects, activeProjectId, history, currentIdx,
                            nextProjectId, clock) IN
       /\ projects' = r.projects
       /\ activeProjectId' = r.activeProjectId
       /\ nextProjectId' = IF r.usedId THEN nextProjectId + 1
                           ELSE nextProjectId
       /\ saves' = Append(saves, Save(r.projects, "save", NO_PROJECT, NO_PROJECT))
  /\ UNCHANGED <<sessionVars, db, saveIndicator, uiVars, ops, loading,
                 nextVersionId, nextLayerId, clock, downloaded>>

(* loadProject with the length of the revision stack as the index *)
LoadProjectOffByOne(k) ==
  /\ Landing
  /\ k \in 1..Len(projects)
  /\ activeProjectId' = projects[k].id
  /\ history' = projects[k].revisionStack
  /\ currentIdx' = Len(projects[k].revisionStack)
  /\ baseLayout' = DEFAULT_LAYOUT
  /\ activeLayerId' = BASE
  /\ modal' = NoModal
  /\ UNCHANGED <<editMode, prompt, isProcessing, error, projects, db,
                 saveIndicator, isImportModalOpen, importTarget,
                 isCameraActive, capturedImage, countdown, countdownInterval, intervals,
                 asyncVars, metaVars>>

(* loadProject with the first version of the revision stack as the        *)
(* current one                                                             *)
LoadProjectFirst(k) ==
  /\ Landing
  /\ k \in 1..Len(projects)
  /\ LET project == projects[k]
         n       == Len(project.revisionStack) IN
       /\ activeProjectId' = project.id
       /\ history' = project.revisionStack
       /\ currentIdx' = IF n > 0 THEN 0 ELSE NO_VERSION
       /\ baseLayout' = IF n > 0 THEN project.revisionStack[1].baseLayout
                        ELSE DEFAULT_LAYOUT
  /\ activeLayerId' = BASE
  /\ modal' = NoModal
  /\ UNCHANGED <<editMode, prompt, isProcessing, error, projects, db,
                 saveIndicator, isImportModalOpen, importTarget,
                 isCameraActive, capturedImage, countdown, countdownInterval, intervals,
                 asyncVars, metaVars>>

(* loadProject (App.tsx:227-236) from a card of the landing page          *)
(* (App.tsx:675-676)                                                       *)
LoadProject(k) ==
  /\ Landing
  /\ k \in 1..Len(projects)
  /\ LET project == projects[k]
         n       == Len(project.revisionStack) IN
       /\ activeProjectId' = project.id
       /\ history' = project.revisionStack
       /\ currentIdx' = n - 1
       /\ baseLayout' = SyncedLayout(project.revisionStack, n - 1,
                                     IF n > 0
                                     THEN project.revisionStack[n].baseLayout
                                     ELSE DEFAULT_LAYOUT, TRUE)
  /\ activeLayerId' = BASE
  /\ modal' = NoModal
  /\ UNCHANGED <<editMode, prompt, isProcessing, error, projects, db,
                 saveIndicator, isImportModalOpen, importTarget,
                 isCameraActive, capturedImage, countdown, countdownInterval, intervals,
                 asyncVars, metaVars>>

(* deleteProject (App.tsx:238-254) from a card's delete button            *)
(* (App.tsx:679-680): it opens the modal; onConfirm closes over this      *)
(* render's projects and activeProjectId.                                  *)
DeleteProject(k) ==
  /\ Landing
  /\ k \in 1..Len(projects)
  /\ modal' = [kind |-> "delete", id |-> projects[k].id,
               projects |-> projects, active |-> activeProjectId]
  /\ UNCHANGED <<sessionVars, projVars, isImportModalOpen, importTarget,
                 isCameraActive, capturedImage, countdown, countdownInterval, intervals,
                 asyncVars, metaVars>>

(* onConfirm of the delete modal (App.tsx:244-247) up to its await *)
ModalConfirmDelete ==
  /\ modal.kind = "delete"
  /\ LET updated == WithoutProject(modal.projects, modal.id) IN
       /\ projects' = updated
       /\ saves' = Append(saves, Save(updated, "delete", modal.id, modal.active))
  /\ UNCHANGED <<sessionVars, activeProjectId, db, saveIndicator, uiVars,
                 ops, loading, metaVars>>

(* createSnapshot that only asks for a current version *)
CreateSnapshotCallAnyProject ==
  IF ~HasCurrent(history, currentIdx)
  THEN UNCHANGED vars
  ELSE LET updatedProjects ==
             SnapshotProjects(projects, activeProjectId,
                              CurrentVersion(history, currentIdx), clock) IN
         /\ projects' = updatedProjects
         /\ saves' = Append(saves, Save(updatedProjects, "snapshot",
                                        NO_PROJECT, NO_PROJECT))
         /\ UNCHANGED <<sessionVars, activeProjectId, db, saveIndicator,
                        uiVars, ops, loading, metaVars>>

(* createSnapshot (App.tsx:256-267) up to its await, called in any state: *)
(* it returns at once (App.tsx:257) without a current version or without  *)
(* an active project                                                       *)
CreateSnapshotCall ==
  IF ~HasCurrent(history, currentIdx) \/ activeProjectId = NO_PROJECT
  THEN UNCHANGED vars
  ELSE LET updatedProjects ==
             SnapshotProjects(projects, activeProjectId,
                              CurrentVersion(history, currentIdx), clock) IN
         /\ projects' = updatedProjects
         /\ saves' = Append(saves, Save(updatedProjects, "snapshot",
                                        NO_PROJECT, NO_PROJECT))
         /\ UNCHANGED <<sessionVars, activeProjectId, db, saveIndicator,
                        uiVars, ops, loading, metaVars>>

(* Mark Milestone (App.tsx:633), a button of the editor; the steps that   *)
(* change something                                                        *)
CreateSnapshot ==
  /\ Editor
  /\ activeProjectId # NO_PROJECT
  /\ CreateSnapshotCall

(* persistProjects (App.tsx:125-132) returns after saveProjectsToDB       *)
(* (App.tsx:43-62) replaced the store's contents; the caller continues.   *)
(* The transactions of outstanding calls run in the order of the calls.   *)
AfterPersist(s) ==
  IF s.cont = "delete"
  THEN (* App.tsx:248-251 *)
       IF s.active = s.id
       THEN /\ ExecuteStartNewProject
            /\ UNCHANGED <<editMode, isProcessing, saveIndicator>>
       ELSE /\ modal' = NoModal
            /\ UNCHANGED <<history, currentIdx, baseLayout, activeLayerId,
                           editMode, prompt, isProcessing, activeProjectId,
                           saveIndicator>>
  ELSE (* App.tsx:223, 265 *)
       /\ saveIndicator' = TRUE
       /\ UNCHANGED <<history, currentIdx, baseLayout, activeLayerId,
                      editMode, prompt, isProcessing, activeProjectId, modal>>

PersistOk ==
  /\ saves # <<>>
  /\ db' = SaveProjectsToDB(Head(saves).payload)
  /\ saves' = Tail(saves)
  /\ AfterPersist(Head(saves))
  /\ IF Head(saves).cont = "delete" /\ Head(saves).active = Head(saves).id
     THEN TRUE ELSE error' = error
  /\ UNCHANGED <<projects, isImportModalOpen, importTarget, isCameraActive,
                 capturedImage, countdown, countdownInterval, intervals, ops, loading,
                 metaVars>>

(* saveProjectsToDB rejects; the transaction is rolled back and           *)
(* persistProjects sets the storage error (App.tsx:128-131)               *)
PersistFail ==
  /\ saves # <<>>
  /\ saves' = Tail(saves)
  /\ AfterPersist(Head(saves))
  /\ IF Head(saves).cont = "delete" /\ Head(saves).active = Head(saves).id
     THEN TRUE ELSE error' = ERR_STORAGE
  /\ UNCHANGED <<projects, db, isImportModalOpen, importTarget,
                 isCameraActive, capturedImage, countdown, countdownInterval, intervals,
                 ops, loading, metaVars>>

(* The timers of App.tsx:224 and 266 *)
SaveIndicatorOff ==
  /\ saveIndicator
  /\ saveIndicator' = FALSE
  /\ UNCHANGED <<sessionVars, projects, activeProjectId, db, uiVars,
                 asyncVars, metaVars>>


----------------------------------------------------------------------------
(* The import dialog and the camera *)

(* openImportModal (App.tsx:466-469): 'base' from the landing page        *)
(* (App.tsx:654), 'layer' from the transform panel (App.tsx:743)          *)
OpenImportModal(target) ==
  /\ \/ target = "base" /\ Landing
     \/ target = "layer" /\ Editor /\ editMode = "transform"
  /\ importTarget' = target
  /\ isImportModalOpen' = TRUE
  /\ UNCHANGED <<sessionVars, projVars, modal, isCameraActive, capturedImage,
                 countdown, countdownInterval, intervals, asyncVars, metaVars>>

(* The dialog's close button (App.tsx:503) *)
CloseImportModal ==
  /\ modal.kind = "none"
  /\ isImportModalOpen
  /\ isCameraActive' = FALSE
  /\ isImportModalOpen' = FALSE
  /\ UNCHANGED <<sessionVars, projVars, modal, importTarget, capturedImage,
                 countdown, countdownInterval, intervals, asyncVars, metaVars>>

(* Live Camera (App.tsx:511) and Exit (App.tsx:536) *)
SetCameraActive(on) ==
  /\ modal.kind = "none"
  /\ isImportModalOpen
  /\ IF on THEN ~isCameraActive ELSE isCameraActive /\ capturedImage = ""
  /\ isCameraActive' = on
  /\ UNCHANGED <<sessionVars, projVars, modal, isImportModalOpen,
                 importTarget, capturedImage, countdown, countdownInterval, intervals,
                 asyncVars, metaVars>>

(* window.clearInterval of the interval the ref holds (App.tsx:343-346,   *)
(* 354, 359): the number of intervals left scheduled                      *)
Cleared == IF countdownInterval THEN intervals - 1 ELSE intervals

(* capturePhoto (App.tsx:334-350) from Snap Now (App.tsx:540), which      *)
(* clears the interval of the countdown, and Retake (App.tsx:531)         *)
SetCapturedImage(img) ==
  /\ modal.kind = "none"
  /\ isImportModalOpen /\ isCameraActive
  /\ IF img = "" THEN capturedImage # "" ELSE capturedImage = ""
  /\ capturedImage' = img
  /\ IF img = ""
     THEN UNCHANGED <<countdown, countdownInterval, intervals>>
     ELSE /\ countdown' = 0
          /\ countdownInterval' = FALSE
          /\ intervals' = Cleared
  /\ UNCHANGED <<sessionVars, projVars, modal, isImportModalOpen,
                 importTarget, isCameraActive, asyncVars, metaVars>>

(* startAutoCapture without the clearInterval of App.tsx:354 *)
StartAutoCaptureKeeps ==
  /\ modal.kind = "none"
  /\ isImportModalOpen /\ isCameraActive /\ capturedImage = ""
  /\ countdown' = AUTO_CAPTURE_SECONDS
  /\ countdownInterval' = TRUE
  /\ intervals' = intervals + 1
  /\ UNCHANGED <<sessionVars, projVars, modal, isImportModalOpen,
                 importTarget, isCameraActive, capturedImage, asyncVars,
                 metaVars>>

(* startAutoCapture(5) (App.tsx:352-366) from 5s Shutter (App.tsx:537):   *)
(* the interval of an earlier countdown is cleared and a new one is set   *)
StartAutoCapture ==
  /\ modal.kind = "none"
  /\ isImportModalOpen /\ isCameraActive /\ capturedImage = ""
  /\ countdown' = AUTO_CAPTURE_SECONDS
  /\ countdownInterval' = TRUE
  /\ intervals' = Cleared + 1
  /\ UNCHANGED <<sessionVars, projVars, modal, isImportModalOpen,
                 importTarget, isCameraActive, capturedImage, asyncVars,
                 metaVars>>

(* The video element (App.tsx:519) is mounted, so videoRef.current is set *)
VideoMounted == isImportModalOpen /\ isCameraActive /\ capturedImage = ""

(* The callback of the interval (App.tsx:355-364), once a second while    *)
(* the interval is set.  At 1 it calls capturePhoto, which takes the      *)
(* frame only when the video element is there (App.tsx:335), and clears   *)
(* the interval; above 1 it counts down.                                   *)
CountdownTick ==
  /\ intervals > 0
  /\ IF countdown # 0 /\ countdown <= 1
     THEN /\ capturedImage' = IF VideoMounted THEN CAMERA_URL
                              ELSE capturedImage
          /\ countdownInterval' = FALSE
          /\ intervals' = Cleared
          /\ countdown' = 0
     ELSE /\ countdown' = IF countdown # 0 THEN countdown - 1 ELSE 0
          /\ UNCHANGED <<capturedImage, countdownInterval, intervals>>
  /\ UNCHANGED <<sessionVars, projVars, modal, isImportModalOpen,
                 importTarget, isCameraActive, asyncVars, metaVars>>

(* confirmCapture (App.tsx:368-386) from Accept Frame (App.tsx:532) *)
ConfirmCapture ==
  /\ modal.kind = "none"
  /\ isImportModalOpen /\ isCameraActive
  /\ capturedImage # ""
  /\ IF importTarget = "layer" /\ HasCurrent(history, currentIdx)
     THEN LET cv == CurrentVersion(history, currentIdx)
                 newLayer == NewLayer(nextLayerId, capturedImage,
                                      <<"Camera Shot", 0>>)
                 r == AddToHistory(history, currentIdx, baseLayout,
                                   nextVersionId, clock, cv.url, "Camera Layer",
                                   Append(cv.layers, newLayer), <<>>) IN
               /\ history' = r.history
               /\ currentIdx' = r.currentIdx
               /\ baseLayout' = SyncedLayout(r.history, r.currentIdx,
                                             baseLayout, TRUE)
               /\ activeLayerId' = newLayer.id
               /\ nextLayerId' = nextLayerId + 1
     ELSE LET r == AddToHistory(history, currentIdx, baseLayout,
                                   nextVersionId, clock, capturedImage,
                                   "Camera Base", <<>>, <<DEFAULT_LAYOUT>>) IN
               /\ history' = r.history
               /\ currentIdx' = r.currentIdx
               /\ baseLayout' = SyncedLayout(r.history, r.currentIdx,
                                             baseLayout, TRUE)
               /\ activeLayerId' = activeLayerId
               /\ nextLayerId' = nextLayerId
  /\ nextVersionId' = nextVersionId + 1
  /\ isCameraActive' = FALSE
  /\ isImportModalOpen' = FALSE
  /\ capturedImage' = ""
  /\ UNCHANGED <<editMode, prompt, isProcessing, error, projVars, modal,
                 importTarget, countdown, countdownInterval, intervals, asyncVars,
                 nextProjectId, clock, downloaded>>

----------------------------------------------------------------------------
(* Asynchronous handlers: the part before the first await *)

(* handleBaseUpload (App.tsx:269-276) with a picked file, from Local File *)
(* of the dialog (App.tsx:507, 810)                                        *)
HandleBaseUpload(file) ==
  /\ modal.kind = "none"
  /\ isImportModalOpen /\ ~isCameraActive /\ importTarget = "base"
  /\ isProcessing' = TRUE
  /\ isImportModalOpen' = FALSE
  /\ ops' = Append(ops, Op("base", "read", "", file))
  /\ UNCHANGED <<history, currentIdx, baseLayout, activeLayerId, editMode,
                 prompt, error, projVars, modal, importTarget, isCameraActive,
                 capturedImage, countdown, countdownInterval, intervals, saves, loading,
                 metaVars>>

(* handleLayerUpload (App.tsx:286-293) with a picked file (App.tsx:811) *)
HandleLayerUpload(file) ==
  /\ modal.kind = "none"
  /\ isImportModalOpen /\ ~isCameraActive /\ importTarget = "layer"
  /\ HasCurrent(history, currentIdx)
  /\ isProcessing' = TRUE
  /\ isImportModalOpen' = FALSE
  /\ ops' = Append(ops, Op("layer", "read", "", file))
  /\ UNCHANGED <<history, currentIdx, baseLayout, activeLayerId, editMode,
                 prompt, error, projVars, modal, importTarget, isCameraActive,
                 capturedImage, countdown, countdownInterval, intervals, saves, loading,
                 metaVars>>

(* handleEdit (App.tsx:388-393) with customPrompt ("" when not passed) *)
HandleEdit(customPrompt) ==
  LET rawPrompt == Trim(OrElse(customPrompt, prompt)) IN
  /\ ~(~HasCurrent(history, currentIdx)
       \/ (rawPrompt = "" /\ editMode # "transform"))
  /\ isProcessing' = TRUE
  /\ ops' = Append(ops, Op("edit", "compose", rawPrompt, ""))
  /\ UNCHANGED <<history, currentIdx, baseLayout, activeLayerId, editMode,
                 prompt, error, projVars, uiVars, saves, loading, metaVars>>

(* handleEdit that raises the busy flag before it looks at its input *)
HandleEditCallBusyFirst(customPrompt) ==
  IF \/ ~HasCurrent(history, currentIdx)
     \/ (Trim(OrElse(customPrompt, prompt)) = "" /\ editMode # "transform")
  THEN /\ isProcessing' = TRUE
       /\ UNCHANGED <<history, currentIdx, baseLayout, activeLayerId,
                      editMode, prompt, error, projVars, uiVars, asyncVars,
                      metaVars>>
  ELSE HandleEdit(customPrompt)

(* handleEdit (App.tsx:388-393) called with any customPrompt in any       *)
(* state: it returns at once (App.tsx:390) without a current version, and *)
(* with a prompt that trims to nothing outside the transform mode         *)
HandleEditCall(customPrompt) ==
  IF \/ ~HasCurrent(history, currentIdx)
     \/ (Trim(OrElse(customPrompt, prompt)) = "" /\ editMode # "transform")
  THEN UNCHANGED vars
  ELSE HandleEdit(customPrompt)

(* Synthesize Layers (App.tsx:634-637), disabled while busy or without a  *)
(* prompt                                                                  *)
SynthesizeClick ==
  /\ Editor
  /\ ~(isProcessing \/ Trim(prompt) = "")
  /\ HandleEdit("")

(* A QUICK_ACTIONS button of the styles panel (App.tsx:703-706) or a      *)
(* CINEMATIC_EFFECTS button of the effects panel (App.tsx:714-717)        *)
QuickActionClick(p) ==
  /\ Editor
  /\ \/ p = QUICK_PROMPT /\ editMode = "styles"
     \/ p = EFFECT_PROMPT /\ editMode = "effects"
  /\ HandleEdit(p)

(* handleGenerateFromScratch (App.tsx:407-411) from a blueprint of the    *)
(* landing page (App.tsx:662-663)                                          *)
HandleGenerateFromScratch(templatePrompt) ==
  /\ Landing
  /\ isProcessing' = TRUE
  /\ ops' = Append(ops, Op("generate", "remote", templatePrompt, ""))
  /\ UNCHANGED <<history, currentIdx, baseLayout, activeLayerId, editMode,
                 prompt, error, projVars, uiVars, saves, loading, metaVars>>

(* handleChatSubmit (App.tsx:420-437) with a non-blank chat input, from   *)
(* the chat panel (App.tsx:779-801)                                        *)
HandleChatSubmit ==
  /\ Editor
  /\ editMode = "chat"
  /\ ~isProcessing
  /\ isProcessing' = TRUE
  /\ ops' = Append(ops, Op("chat",
                           IF HasCurrent(history, currentIdx)
                           THEN "compose" ELSE "remote", "", ""))
  /\ UNCHANGED <<history, currentIdx, baseLayout, activeLayerId, editMode,
                 prompt, error, projVars, uiVars, saves, loading, metaVars>>


----------------------------------------------------------------------------
(* Asynchronous handlers: the continuations.  Each runs with the history, *)
(* currentIdx and baseLayout of the render that created its handler        *)
(* (op.hist, op.idx, op.bl); its finally block clears the busy flag.       *)

(* The step appends a version: the state addToHistory's setters leave *)
Appended(r) ==
  /\ history' = r.history
  /\ currentIdx' = r.currentIdx

(* handleBaseUpload after fileToBase64 resolved (App.tsx:277, 281) *)
BaseUploadOk(k) ==
  /\ k \in 1..Len(ops) /\ ops[k].kind = "base"
  /\ LET op == ops[k]
         r  == AddToHistory(op.hist, op.idx, op.bl, nextVersionId, clock,
                            op.url, "Subject Upload", <<>>,
                            <<DEFAULT_LAYOUT>>) IN
       /\ Appended(r)
       /\ baseLayout' = SyncedLayout(r.history, r.currentIdx, baseLayout, TRUE)
  /\ nextVersionId' = nextVersionId + 1
  /\ isProcessing' = FALSE
  /\ ops' = Without(ops, k)
  /\ UNCHANGED <<activeLayerId, editMode, prompt, error, projVars, uiVars,
                 saves, loading, nextLayerId, nextProjectId, clock, downloaded>>

(* The catch block without the finally block: the busy flag stays set *)
BaseUploadFailStaysBusy(k) ==
  /\ k \in 1..Len(ops) /\ ops[k].kind = "base"
  /\ error' = ERR_IMPORT
  /\ ops' = Without(ops, k)
  /\ UNCHANGED <<history, currentIdx, baseLayout, activeLayerId, editMode,
                 prompt, isProcessing, projVars, uiVars, saves, loading,
                 metaVars>>

(* handleBaseUpload after fileToBase64 rejected (App.tsx:279, 281) *)
BaseUploadFail(k) ==
  /\ k \in 1..Len(ops) /\ ops[k].kind = "base"
  /\ error' = ERR_IMPORT
  /\ isProcessing' = FALSE
  /\ ops' = Without(ops, k)
  /\ UNCHANGED <<history, currentIdx, baseLayout, activeLayerId, editMode,
                 prompt, projVars, uiVars, saves, loading, metaVars>>

(* handleLayerUpload after fileToBase64 resolved (App.tsx:294-303, 307) *)
LayerUploadOk(k) ==
  /\ k \in 1..Len(ops) /\ ops[k].kind = "layer"
  /\ LET op == ops[k]
         cv == CurrentVersion(op.hist, op.idx)
         newLayer == NewLayer(nextLayerId, op.url,
                              <<"Layer", Len(cv.layers) + 1>>)
         r  == AddToHistory(op.hist, op.idx, op.bl, nextVersionId, clock,
                            cv.url, "Added Image Layer",
                            Append(cv.layers, newLayer), <<>>) IN
       /\ Appended(r)
       /\ baseLayout' = SyncedLayout(r.history, r.currentIdx, baseLayout, TRUE)
       /\ activeLayerId' = newLayer.id
  /\ editMode' = "transform"
  /\ nextLayerId' = nextLayerId + 1
  /\ nextVersionId' = nextVersionId + 1
  /\ isProcessing' = FALSE
  /\ ops' = Without(ops, k)
  /\ UNCHANGED <<prompt, error, projVars, uiVars, saves, loading,
                 nextProjectId, clock, downloaded>>

(* handleLayerUpload after fileToBase64 rejected (App.tsx:305, 307) *)
LayerUploadFail(k) ==
  /\ k \in 1..Len(ops) /\ ops[k].kind = "layer"
  /\ error' = ERR_LAYER
  /\ isProcessing' = FALSE
  /\ ops' = Without(ops, k)
  /\ UNCHANGED <<history, currentIdx, baseLayout, activeLayerId, editMode,
                 prompt, projVars, uiVars, saves, loading, metaVars>>

(* composeImage (imageUtils.ts:35-70) resolves when the base image of the *)
(* closed-over current version decodes                                     *)
ComposeResolves(op) == Decodable(CurrentVersion(op.hist, op.idx).url)

(* handleEdit after composeImage resolved (App.tsx:394-396) *)
EditComposed(k) ==
  /\ k \in 1..Len(ops) /\ ops[k].kind = "edit" /\ ops[k].stage = "compose"
  /\ ComposeResolves(ops[k])
  /\ ops' = [ops EXCEPT ![k].stage = "remote"]
  /\ UNCHANGED <<sessionVars, projVars, uiVars, saves, loading, metaVars>>

(* handleEdit after editImage resolved (App.tsx:397-399, 403) *)
EditOk(k) ==
  /\ k \in 1..Len(ops) /\ ops[k].kind = "edit" /\ ops[k].stage = "remote"
  /\ LET op == ops[k]
         r  == AddToHistory(op.hist, op.idx, op.bl, nextVersionId, clock,
                            EDIT_URL, OrElse(op.p, "AI Edit"), <<>>,
                            <<DEFAULT_LAYOUT>>) IN
       /\ Appended(r)
       /\ baseLayout' = SyncedLayout(r.history, r.currentIdx, DEFAULT_LAYOUT,
                                     TRUE)
  /\ prompt' = ""
  /\ nextVersionId' = nextVersionId + 1
  /\ isProcessing' = FALSE
  /\ ops' = Without(ops, k)
  /\ UNCHANGED <<activeLayerId, editMode, error, projVars, uiVars, saves,
                 loading, nextLayerId, nextProjectId, clock, downloaded>>

(* A failure path that clears the prompt as the success path does *)
EditFailClearsPrompt(k) ==
  /\ k \in 1..Len(ops) /\ ops[k].kind = "edit"
  /\ error' = ERR_EDIT
  /\ prompt' = ""
  /\ isProcessing' = FALSE
  /\ ops' = Without(ops, k)
  /\ UNCHANGED <<history, currentIdx, baseLayout, activeLayerId, editMode,
                 projVars, uiVars, saves, loading, metaVars>>

(* handleEdit after composeImage or editImage rejected (App.tsx:401, 403) *)
EditFail(k) ==
  /\ k \in 1..Len(ops) /\ ops[k].kind = "edit"
  /\ ops[k].stage = "compose" => ~ComposeResolves(ops[k])
  /\ error' = ERR_EDIT
  /\ isProcessing' = FALSE
  /\ ops' = Without(ops, k)
  /\ UNCHANGED <<history, currentIdx, baseLayout, activeLayerId, editMode,
                 prompt, projVars, uiVars, saves, loading, metaVars>>

(* handleGenerateFromScratch after generateNewImage resolved              *)
(* (App.tsx:412, 416)                                                      *)
GenerateOk(k) ==
  /\ k \in 1..Len(ops) /\ ops[k].kind = "generate"
  /\ LET op == ops[k]
         r  == AddToHistory(op.hist, op.idx, op.bl, nextVersionId, clock,
                            GENERATE_URL, op.p, <<>>, <<DEFAULT_LAYOUT>>) IN
       /\ Appended(r)
       /\ baseLayout' = SyncedLayout(r.history, r.currentIdx, baseLayout, TRUE)
  /\ nextVersionId' = nextVersionId + 1
  /\ isProcessing' = FALSE
  /\ ops' = Without(ops, k)
  /\ UNCHANGED <<activeLayerId, editMode, prompt, error, projVars, uiVars,
                 saves, loading, nextLayerId, nextProjectId, clock, downloaded>>

(* handleGenerateFromScratch after generateNewImage rejected              *)
(* (App.tsx:414, 416)                                                      *)
GenerateFail(k) ==
  /\ k \in 1..Len(ops) /\ ops[k].kind = "generate"
  /\ error' = ERR_GENERATE
  /\ isProcessing' = FALSE
  /\ ops' = Without(ops, k)
  /\ UNCHANGED <<history, currentIdx, baseLayout, activeLayerId, editMode,
                 prompt, projVars, uiVars, saves, loading, metaVars>>

(* handleChatSubmit after composeImage resolved (App.tsx:437-445) *)
ChatComposed(k) ==
  /\ k \in 1..Len(ops) /\ ops[k].kind = "chat" /\ ops[k].stage = "compose"
  /\ ComposeResolves(ops[k])
  /\ ops' = [ops EXCEPT ![k].stage = "remote"]
  /\ UNCHANGED <<sessionVars, projVars, uiVars, saves, loading, metaVars>>

(* handleChatSubmit after generateContent resolved (App.tsx:452-458, 462) *)
ChatOk(k) ==
  /\ k \in 1..Len(ops) /\ ops[k].kind = "chat" /\ ops[k].stage = "remote"
  /\ isProcessing' = FALSE
  /\ ops' = Without(ops, k)
  /\ UNCHANGED <<history, currentIdx, baseLayout, activeLayerId, editMode,
                 prompt, error, projVars, uiVars, saves, loading, metaVars>>

(* handleChatSubmit after composeImage or generateContent rejected        *)
(* (App.tsx:460, 462)                                                      *)
ChatFail(k) ==
  /\ k \in 1..Len(ops) /\ ops[k].kind = "chat"
  /\ ops[k].stage = "compose" => ~ComposeResolves(ops[k])
  /\ error' = ERR_CHAT
  /\ isProcessing' = FALSE
  /\ ops' = Without(ops, k)
  /\ UNCHANGED <<history, currentIdx, baseLayout, activeLayerId, editMode,
                 prompt, projVars, uiVars, saves, loading, metaVars>>

(* The Export button (App.tsx:562) up to its await: composeImage is       *)
(* called with this render's current version and base layout              *)
ExportClick ==
  /\ Editor
  /\ ops' = Append(ops, Op("export", "compose", "", ""))
  /\ UNCHANGED <<sessionVars, projVars, uiVars, saves, loading, metaVars>>

(* The Export handler after composeImage resolved: downloadImage(final)   *)
(* (imageUtils.ts:13-20) hands the raster to the browser                   *)
ExportOk(k) ==
  /\ k \in 1..Len(ops) /\ ops[k].kind = "export"
  /\ ComposeResolves(ops[k])
  /\ downloaded' = ComposeImage(CurrentVersion(ops[k].hist, ops[k].idx).url,
                                ops[k].bl,
                                CurrentVersion(ops[k].hist, ops[k].idx).layers)
  /\ ops' = Without(ops, k)
  /\ UNCHANGED <<sessionVars, projVars, uiVars, saves, loading, idVars,
                 clock>>

(* The Export handler after composeImage rejected: nothing catches it *)
ExportFail(k) ==
  /\ k \in 1..Len(ops) /\ ops[k].kind = "export"
  /\ ~ComposeResolves(ops[k])
  /\ ops' = Without(ops, k)
  /\ UNCHANGED <<sessionVars, projVars, uiVars, saves, loading, metaVars>>


----------------------------------------------------------------------------
(* Spec: the editing session with its asynchronous operations.  A session *)
(* that never saves: the store is empty and the project list stays empty. *)

EditInit == Init /\ db = <<>>

(* The editor's synchronous steps *)
EditorStep ==
  \/ \E m \in {"styles", "transform"} : SetEditMode(m)
  \/ \E p \in TypedPrompts : TypePrompt(p)
  \/ \E i \in 0..(MaxVersions - 1) : SelectVersion(i)
  \/ \E id \in 0..MaxLayers : SetActiveLayerId(id)
  \/ \E key \in TweakKeys, value \in TweakValues : TweakLayout(key, value)
  \/ \E id \in 1..MaxLayers : VersionsLeft(1, MaxVersions) /\ RemoveLayer(id)
  \/ LogoClick
  \/ OpenImportModal("base")
  \/ OpenImportModal("layer")
  \/ CloseImportModal

(* An asynchronous handler is started *)
StartStep ==
  \/ /\ OpsRoom(MaxOps) /\ VersionsLeft(1, MaxVersions)
     /\ HandleBaseUpload("fileA")
  \/ /\ OpsRoom(MaxOps) /\ VersionsLeft(1, MaxVersions)
     /\ LayersLeft(1, MaxLayers)
     /\ HandleLayerUpload("fileA")
  \/ /\ OpsRoom(MaxOps) /\ VersionsLeft(1, MaxVersions)
     /\ QuickActionClick(QUICK_PROMPT)
  \/ /\ OpsRoom(MaxOps) /\ VersionsLeft(1, MaxVersions)
     /\ SynthesizeClick
  \/ /\ OpsRoom(MaxOps) /\ VersionsLeft(1, MaxVersions)
     /\ HandleGenerateFromScratch(TEMPLATE)

(* The continuation of an outstanding handler runs *)
CompleteStep ==
  \E k \in 1..MaxOps :
    \/ BaseUploadOk(k)
    \/ LayerUploadOk(k)
    \/ EditComposed(k)
    \/ EditOk(k)
    \/ EditFail(k)
    \/ GenerateOk(k)
    \/ GenerateFail(k)

Next == EditorStep \/ StartStep \/ CompleteStep

Spec == EditInit /\ [][Next]_vars


----------------------------------------------------------------------------
(* SpecEdit: synchronous editing only.  Images come from the camera       *)
(* (confirmCapture), so every step runs in the render it was started in.  *)

SyncEditStep ==
  \/ \E m \in {"styles", "transform"} : SetEditMode(m)
  \/ \E i \in 0..(MaxEditVersions - 1) : SelectVersion(i)
  \/ \E id \in 0..MaxEditLayers : SetActiveLayerId(id)
  \/ \E key \in TweakKeys, value \in TweakValues : TweakLayout(key, value)
  \/ \E id \in 1..MaxEditLayers :
       VersionsLeft(1, MaxEditVersions) /\ RemoveLayer(id)
  \/ LogoClick
  \/ OpenImportModal("base")
  \/ OpenImportModal("layer")
  \/ CloseImportModal
  \/ \E on \in BOOLEAN : SetCameraActive(on)
  \/ \E img \in {"", CAMERA_URL} : SetCapturedImage(img)
  \/ /\ VersionsLeft(1, MaxEditVersions)
     /\ importTarget = "layer" => LayersLeft(1, MaxEditLayers)
     /\ ConfirmCapture

SpecEdit == EditInit /\ [][SyncEditStep]_vars

----------------------------------------------------------------------------
(* SpecTweak: an image from the camera, layers from the camera, and the   *)
(* sliders of the transform panel.                                         *)

TweakStep ==
  \/ \E m \in {"styles", "transform"} : SetEditMode(m)
  \/ \E i \in 0..(MaxTweakVersions - 1) : SelectVersion(i)
  \/ \E id \in 0..MaxTweakLayers : SetActiveLayerId(id)
  \/ \E key \in TweakKeys, value \in TweakValues : TweakLayout(key, value)
  \/ OpenImportModal("base")
  \/ OpenImportModal("layer")
  \/ SetCameraActive(TRUE)
  \/ SetCapturedImage(CAMERA_URL)
  \/ /\ VersionsLeft(1, MaxTweakVersions)
     /\ importTarget = "layer" => LayersLeft(1, MaxTweakLayers)
     /\ ConfirmCapture

SpecTweak == EditInit /\ [][TweakStep]_vars

----------------------------------------------------------------------------
(* SpecFail: remote generation and remote edits, of a quick action or of  *)
(* the typed prompt, with both outcomes.                                   *)

FailStep ==
  \/ \E p \in TypedPrompts : TypePrompt(p)
  \/ /\ OpsRoom(MaxFailOps) /\ VersionsLeft(1, MaxFailVersions)
     /\ HandleGenerateFromScratch(TEMPLATE)
  \/ /\ OpsRoom(MaxFailOps) /\ VersionsLeft(1, MaxFailVersions)
     /\ QuickActionClick(QUICK_PROMPT)
  \/ /\ OpsRoom(MaxFailOps) /\ VersionsLeft(1, MaxFailVersions)
     /\ SynthesizeClick
  \/ \E k \in 1..MaxFailOps :
       \/ GenerateOk(k)
       \/ GenerateFail(k)
       \/ EditComposed(k)
       \/ EditOk(k)
       \/ EditFail(k)
  \/ \E i \in 0..(MaxFailVersions - 1) : SelectVersion(i)
  \/ DismissError

SpecFail == EditInit /\ [][FailStep]_vars


----------------------------------------------------------------------------
(* SpecBusy: every handler that sets the busy flag, with both outcomes of *)
(* its asynchronous calls.                                                 *)

BusyUiStep ==
  \/ \E m \in EditModes : SetEditMode(m)
  \/ OpenImportModal("base")
  \/ OpenImportModal("layer")
  \/ DismissError

BusyStartStep ==
  \/ \E file \in FileUrls :
       /\ OpsRoom(MaxBusyOps) /\ VersionsLeft(1, MaxBusyVersions)
       /\ HandleBaseUpload(file)
  \/ /\ OpsRoom(MaxBusyOps) /\ VersionsLeft(1, MaxBusyVersions)
     /\ LayersLeft(1, MaxBusyLayers)
     /\ HandleLayerUpload("fileA")
  \/ \E p \in {QUICK_PROMPT, EFFECT_PROMPT} :
       /\ OpsRoom(MaxBusyOps) /\ VersionsLeft(1, MaxBusyVersions)
       /\ QuickActionClick(p)
  \/ /\ OpsRoom(MaxBusyOps) /\ VersionsLeft(1, MaxBusyVersions)
     /\ HandleGenerateFromScratch(TEMPLATE)
  \/ /\ OpsRoom(MaxBusyOps)
     /\ HandleChatSubmit

BusyCompleteStep ==
  \E k \in 1..MaxBusyOps :
    \/ BaseUploadOk(k)
    \/ BaseUploadFail(k)
    \/ LayerUploadOk(k)
    \/ LayerUploadFail(k)
    \/ EditComposed(k)
    \/ EditOk(k)
    \/ EditFail(k)
    \/ GenerateOk(k)
    \/ GenerateFail(k)
    \/ ChatComposed(k)
    \/ ChatOk(k)
    \/ ChatFail(k)

BusyNext == BusyUiStep \/ BusyStartStep \/ BusyCompleteStep

SpecBusy == EditInit /\ [][BusyNext]_vars

----------------------------------------------------------------------------
(* SpecSnap: a version generated once the initial load is done, saved as *)
(* a project, and its milestones; the store accepts every write.          *)

SnapStep ==
  \/ InitialLoadDone
  \/ clock < MaxSnapClock /\ Tick
  \/ /\ ~loading /\ VersionsLeft(1, MaxSnapVersions)
     /\ HandleGenerateFromScratch(TEMPLATE)
  \/ \E k \in 1..MaxSnapVersions : GenerateOk(k)
  \/ SavesRoom(MaxSnapSaves) /\ StoreCurrentProjectState
  \/ SavesRoom(MaxSnapSaves) /\ CreateSnapshot
  \/ PersistOk
  \/ SaveIndicatorOff

SpecSnap == EditInit /\ [][SnapStep]_vars

----------------------------------------------------------------------------
(* SpecProj: a session with its projects.  Versions are generated and     *)
(* edited remotely; the store starts empty or with one project of an      *)
(* earlier session, and the initial load is outstanding.                   *)

ProjStep ==
  \/ InitialLoadDone
  \/ InitialLoadFail
  \/ clock < MaxProjClock /\ Tick
  \/ /\ OpsRoom(MaxProjOps) /\ VersionsLeft(1, MaxProjVersions)
     /\ HandleGenerateFromScratch(TEMPLATE)
  \/ /\ OpsRoom(MaxProjOps) /\ VersionsLeft(1, MaxProjVersions)
     /\ QuickActionClick(QUICK_PROMPT)
  \/ \E k \in 1..MaxProjOps :
       \/ GenerateOk(k)
       \/ GenerateFail(k)
       \/ EditComposed(k)
       \/ EditOk(k)
       \/ EditFail(k)
  \/ \E i \in 0..(MaxProjVersions - 1) : SelectVersion(i)
  \/ /\ SavesRoom(MaxProjSaves)
     /\ activeProjectId = NO_PROJECT => ProjectsLeft(1, MaxProjProjects)
     /\ StoreCurrentProjectState
  \/ PersistOk
  \/ PersistFail
  \/ SaveIndicatorOff
  \/ \E k \in 1..(MaxProjProjects + 1) : LoadProject(k)
  \/ \E k \in 1..(MaxProjProjects + 1) : DeleteProject(k)
  \/ SavesRoom(MaxProjSaves) /\ ModalConfirmDelete
  \/ ModalCancel
  \/ StartNewProject
  \/ ModalConfirmNew
  \/ LogoClick

SpecProj == Init /\ [][ProjStep]_vars

----------------------------------------------------------------------------
(* SpecSess: sessions over the projects of the store: versions generated  *)
(* and edited once the initial load is done, saved, loaded, deleted and   *)
(* abandoned for a new project; the store accepts every write.            *)

SessStep ==
  \/ InitialLoadDone
  \/ /\ ~loading /\ OpsRoom(MaxSessOps) /\ VersionsLeft(1, MaxSessVersions)
     /\ HandleGenerateFromScratch(TEMPLATE)
  \/ /\ OpsRoom(MaxSessOps) /\ VersionsLeft(1, MaxSessVersions)
     /\ QuickActionClick(QUICK_PROMPT)
  \/ \E k \in 1..MaxSessOps :
       \/ GenerateOk(k)
       \/ EditComposed(k)
       \/ EditOk(k)
  \/ \E i \in 0..(MaxSessVersions - 1) : SelectVersion(i)
  \/ /\ SavesRoom(MaxSessSaves)
     /\ activeProjectId = NO_PROJECT => ProjectsLeft(1, MaxSessProjects)
     /\ StoreCurrentProjectState
  \/ PersistOk
  \/ \E k \in 1..(MaxSessProjects + 1) : LoadProject(k)
  \/ \E k \in 1..(MaxSessProjects + 1) : DeleteProject(k)
  \/ SavesRoom(MaxSessSaves) /\ ModalConfirmDelete
  \/ StartNewProject
  \/ ModalConfirmNew
  \/ LogoClick

SpecSess == Init /\ [][SessStep]_vars

----------------------------------------------------------------------------
(* SpecLoad: projects are edited, moved, saved, left and loaded again; the *)
(* store accepts every write.                                              *)

LoadStep ==
  \/ InitialLoadDone
  \/ /\ ~loading /\ OpsRoom(MaxLoadOps) /\ VersionsLeft(1, MaxLoadVersions)
     /\ QuickActionClick(QUICK_PROMPT)
  \/ \E k \in 1..MaxLoadOps :
       \/ EditComposed(k)
       \/ EditOk(k)
  \/ SetEditMode("transform")
  \/ \E key \in TweakKeys, value \in TweakValues : TweakLayout(key, value)
  \/ \E i \in 0..MaxLoadVersions : SelectVersion(i)
  \/ /\ SavesRoom(MaxLoadSaves) /\ activeProjectId # NO_PROJECT
     /\ StoreCurrentProjectState
  \/ PersistOk
  \/ LogoClick
  \/ \E k \in 1..MaxLoadProjects : LoadProject(k)

SpecLoad == Init /\ [][LoadStep]_vars

----------------------------------------------------------------------------
(* SpecStore: versions are generated and saved as projects, milestones    *)
(* are marked (createSnapshot is called on the landing page and in the    *)
(* editor, with and without an active project), and the page is loaded    *)
(* again over what the store holds; the store starts empty and accepts     *)
(* every write.                                                            *)

StoreStep ==
  \/ InitialLoadDone
  \/ /\ ~loading /\ OpsRoom(MaxStoreOps) /\ VersionsLeft(1, MaxStoreVersions)
     /\ HandleGenerateFromScratch(TEMPLATE)
  \/ \E k \in 1..MaxStoreOps : GenerateOk(k)
  \/ /\ SavesRoom(MaxStoreSaves)
     /\ activeProjectId = NO_PROJECT => ProjectsLeft(1, MaxStoreProjects)
     /\ StoreCurrentProjectState
  \/ /\ Interactive /\ SavesRoom(MaxStoreSaves)
     /\ \A k \in 1..Len(projects) :
          Len(projects[k].snapshots) < MaxStoreSnapshots
     /\ CreateSnapshotCall
  \/ PersistOk
  \/ SaveIndicatorOff
  \/ LogoClick
  \/ \E k \in 1..MaxStoreProjects : LoadProject(k)
  \/ Reload

SpecStore == EditInit /\ [][StoreStep]_vars

----------------------------------------------------------------------------
(* SpecCompose: the operations that compose the current version, an edit, *)
(* a chat request and an export, over imported bases that decode or not.  *)

ComposeStep ==
  \/ OpenImportModal("base")
  \/ SetEditMode("chat")
  \/ \E file \in FileUrls :
       /\ OpsRoom(MaxComposeOps) /\ VersionsLeft(1, MaxComposeVersions)
       /\ HandleBaseUpload(file)
  \/ /\ OpsRoom(MaxComposeOps) /\ VersionsLeft(1, MaxComposeVersions)
     /\ QuickActionClick(QUICK_PROMPT)
  \/ OpsRoom(MaxComposeOps) /\ HandleChatSubmit
  \/ OpsRoom(MaxComposeOps) /\ ExportClick
  \/ \E k \in 1..MaxComposeOps :
       \/ BaseUploadOk(k)
       \/ EditComposed(k)
       \/ EditOk(k)
       \/ EditFail(k)
       \/ ChatComposed(k)
       \/ ChatOk(k)
       \/ ChatFail(k)
       \/ ExportOk(k)
       \/ ExportFail(k)
  \/ DismissError
  \/ LogoClick

SpecCompose == EditInit /\ [][ComposeStep]_vars

----------------------------------------------------------------------------
(* SpecRaster: a base is imported, layers are added from files that       *)
(* decode or not and moved, and the current version is exported, one      *)
(* asynchronous operation at a time.                                       *)

RasterStep ==
  \/ OpenImportModal("base")
  \/ OpenImportModal("layer")
  \/ /\ ops = <<>> /\ VersionsLeft(1, MaxRasterVersions)
     /\ HandleBaseUpload("fileA")
  \/ \E file \in FileUrls :
       /\ ops = <<>> /\ VersionsLeft(1, MaxRasterVersions)
       /\ LayersLeft(1, MaxRasterLayers)
       /\ HandleLayerUpload(file)
  \/ SetEditMode("transform")
  \/ \E id \in 0..MaxRasterLayers : SetActiveLayerId(id)
  \/ \E key \in TweakKeys, value \in TweakValues : TweakLayout(key, value)
  \/ ops = <<>> /\ ExportClick
  \/ \E k \in {1} :
       \/ BaseUploadOk(k)
       \/ LayerUploadOk(k)
       \/ ExportOk(k)

SpecRaster == EditInit /\ [][RasterStep]_vars

----------------------------------------------------------------------------
(* SpecPlace: the store holds one project with one version, an image of   *)
(* either size under a base layout of PlaceLayouts; it is loaded and      *)
(* exported.  The store keeps whatever record was put into it: next to    *)
(* the layouts the sliders reach, PlaceLayouts has records that lack one  *)
(* of the fields of a Layout, or all but one.                              *)

PlaceLayouts ==
  [scale : {50, 100, 150}, stretchX : {50, 100}, stretchY : {100, 200},
   translateX : {-50, 0, 25}, translateY : {0, 10}]
  \cup {[key \in LayoutKeys \ {missing} |-> DEFAULT_LAYOUT[key]] :
          missing \in LayoutKeys}
  \cup {[key \in {only} |-> DEFAULT_LAYOUT[key]] : only \in LayoutKeys}

PlaceStores ==
  {<<[StoredProject EXCEPT
        !.thumbnailUrl = url,
        !.revisionStack = <<[StoredVersion EXCEPT !.url = url,
                                                  !.baseLayout = layout]>>]>> :
     url \in {"fileA", CAMERA_URL}, layout \in PlaceLayouts}

PlaceInit == InitialSession /\ db \in PlaceStores

PlaceStep ==
  \/ InitialLoadDone
  \/ LoadProject(1)
  \/ ops = <<>> /\ ExportClick
  \/ ExportOk(1)
  \/ LogoClick

SpecPlace == PlaceInit /\ [][PlaceStep]_vars

----------------------------------------------------------------------------
(* SpecRemove: the synchronous editor with removeLayer called for any id, *)
(* of a layer of the current version or not.                               *)

RemoveStep ==
  \/ SetEditMode("transform")
  \/ \E i \in 0..(MaxRemoveVersions - 1) : SelectVersion(i)
  \/ \E id \in 0..MaxRemoveLayers : SetActiveLayerId(id)
  \/ \E id \in 1..(MaxRemoveLayers + 1) :
       /\ VersionsLeft(1, MaxRemoveVersions)
       /\ Editor /\ editMode = "transform"
       /\ RemoveLayerCall(id)
  \/ OpenImportModal("base")
  \/ OpenImportModal("layer")
  \/ SetCameraActive(TRUE)
  \/ SetCapturedImage(CAMERA_URL)
  \/ /\ VersionsLeft(1, MaxRemoveVersions)
     /\ importTarget = "layer" => LayersLeft(1, MaxRemoveLayers)
     /\ ConfirmCapture

SpecRemove == EditInit /\ [][RemoveStep]_vars

----------------------------------------------------------------------------
(* SpecCamera: the import dialog with the camera, its countdown and the   *)
(* frames taken by hand or by the countdown.                               *)

CameraStep ==
  \/ SetEditMode("transform")
  \/ OpenImportModal("base")
  \/ OpenImportModal("layer")
  \/ CloseImportModal
  \/ \E on \in BOOLEAN : SetCameraActive(on)
  \/ \E img \in {"", CAMERA_URL} : SetCapturedImage(img)
  \/ StartAutoCapture
  \/ CountdownTick
  \/ /\ VersionsLeft(1, MaxCameraVersions)
     /\ importTarget = "layer" => LayersLeft(1, MaxCameraLayers)
     /\ ConfirmCapture
  \/ LogoClick

SpecCamera == EditInit /\ [][CameraStep]_vars

----------------------------------------------------------------------------
(* SpecLayout: the base layout through a session: a stored project is     *)
(* loaded or an image generated, the base is moved, edits run and         *)
(* versions are selected, all while an edit may be outstanding.           *)

LayoutStep ==
  \/ InitialLoadDone
  \/ LoadProject(1)
  \/ /\ OpsRoom(MaxLayoutOps) /\ VersionsLeft(1, MaxLayoutVersions)
     /\ HandleGenerateFromScratch(TEMPLATE)
  \/ \E m \in {"styles", "transform"} : SetEditMode(m)
  \/ \E key \in TweakKeys, value \in TweakValues : TweakLayout(key, value)
  \/ \E i \in 0..(MaxLayoutVersions - 1) : SelectVersion(i)
  \/ /\ OpsRoom(MaxLayoutOps) /\ VersionsLeft(1, MaxLayoutVersions)
     /\ QuickActionClick(QUICK_PROMPT)
  \/ \E k \in 1..MaxLayoutOps :
       \/ GenerateOk(k)
       \/ EditComposed(k)
       \/ EditOk(k)
       \/ EditFail(k)
  \/ LogoClick

SpecLayout == Init /\ [][LayoutStep]_vars

----------------------------------------------------------------------------
(* SpecIsolate: a base and layers from the camera are moved and removed    *)
(* in a session that is saved and marked as a milestone in between, one   *)
(* write to the store at a time; the store accepts every write.            *)

IsolateStep ==
  \/ InitialLoadDone
  \/ SetEditMode("transform")
  \/ ~loading /\ OpenImportModal("base")
  \/ /\ saves = <<>> /\ VersionsLeft(1, MaxIsolateVersions)
     /\ LayersLeft(1, MaxIsolateLayers)
     /\ OpenImportModal("layer")
  \/ SetCameraActive(TRUE)
  \/ SetCapturedImage(CAMERA_URL)
  \/ /\ VersionsLeft(1, MaxIsolateVersions)
     /\ importTarget = "layer" => LayersLeft(1, MaxIsolateLayers)
     /\ ConfirmCapture
  \/ \E id \in 1..MaxIsolateLayers : SetActiveLayerId(id)
  \/ \E key \in TweakKeys, value \in TweakValues : TweakLayout(key, value)
  \/ \E id \in 1..MaxIsolateLayers :
       VersionsLeft(1, MaxIsolateVersions) /\ RemoveLayer(id)
  \/ /\ saves = <<>>
     /\ activeProjectId = NO_PROJECT => ProjectsLeft(1, MaxIsolateProjects)
     /\ StoreCurrentProjectState
  \/ /\ saves = <<>>
     /\ \A k \in 1..Len(projects) :
          Len(projects[k].snapshots) < MaxIsolateSnapshots
     /\ CreateSnapshot
  \/ PersistOk

SpecIsolate == EditInit /\ [][IsolateStep]_vars

----------------------------------------------------------------------------
(* SpecSubmit: handleEdit called with any prompt, on the landing page and *)
(* in the editor, in every mode, with the prompt box empty, blank or      *)
(* filled; setCurrentIdx called with any index, in and out of range.      *)

SubmitStep ==
  \/ /\ OpsRoom(MaxSubmitOps) /\ VersionsLeft(1, MaxSubmitVersions)
     /\ HandleGenerateFromScratch(TEMPLATE)
  \/ \E p \in {"", " ", "glow"} : TypePrompt(p)
  \/ \E m \in EditModes : SetEditMode(m)
  \/ \E i \in -1..MaxSubmitVersions : Interactive /\ SetCurrentIdxCall(i)
  \/ \E customPrompt \in {"", " ", QUICK_PROMPT} :
       /\ Interactive
       /\ OpsRoom(MaxSubmitOps) /\ VersionsLeft(1, MaxSubmitVersions)
       /\ HandleEditCall(customPrompt)
  \/ \E k \in 1..MaxSubmitOps :
       \/ GenerateOk(k)
       \/ EditComposed(k)
       \/ EditOk(k)
       \/ EditFail(k)
  \/ DismissError
  \/ LogoClick

SpecSubmit == EditInit /\ [][SubmitStep]_vars

----------------------------------------------------------------------------
(* Properties of the version history *)

(* C1 (SpecEdit): branch-on-write.  Every step that appends a version     *)
(* (confirmCapture, removeLayer) leaves the old entries 0..currentIdx in  *)
(* place, puts the new version right behind them as the last entry, so    *)
(* every entry that was after currentIdx is gone, and makes the new       *)
(* version current.  From the empty history (currentIdx = -1) the result  *)
(* is the new version alone with current index 0.                         *)
C1_BranchOnWrite ==
  [][(ConfirmCapture \/ \E id \in 1..MaxEditLayers : RemoveLayer(id)) =>
       /\ Len(history') = currentIdx + 2
       /\ \A j \in 1..(currentIdx + 1) : history'[j] = history[j]
       /\ history'[currentIdx + 2].id = nextVersionId
       /\ currentIdx' = currentIdx + 1]_vars

(* [A, B, C] with B current, then an append: [A, B, D], D current *)
C1_Discarded ==
  /\ Len(history) = 3 /\ currentIdx = 2
  /\ history[1].id = 1 /\ history[2].id = 2 /\ history[3].id = 4

(* C3 (Spec): never two outstanding content-producing operations whose    *)
(* completions append against the same current index.                     *)
C3_SingleInFlight ==
  \A j, k \in 1..Len(ops) :
    j # k => ops[j].idx # ops[k].idx

(* C4 (Spec): the version of a completing asynchronous operation is       *)
(* appended behind the entry that is current when it completes, and the   *)
(* entries up to there are the ones history holds at that moment.         *)
C4_AppendsAtCompletion ==
  [][\A k \in 1..MaxOps :
       (BaseUploadOk(k) \/ LayerUploadOk(k) \/ EditOk(k) \/ GenerateOk(k)) =>
         /\ Len(history') = currentIdx + 2
         /\ \A j \in 1..(currentIdx + 1) : history'[j] = history[j]
         /\ currentIdx' = currentIdx + 1]_vars

(* C5 (SpecTweak): a layout tweak keeps the length of history, the current *)
(* index and every other version; in the current version it sets field    *)
(* key of the base layout (base active) or of the active layer's layout,  *)
(* and nothing else: not the other fields of that layout, not another     *)
(* layer, not the version's id, url, prompt or the order of its layers.   *)
C5_TweakFrame ==
  [][\A key \in TweakKeys, value \in TweakValues :
       TweakLayout(key, value) =>
         /\ Len(history') = Len(history)
         /\ currentIdx' = currentIdx
         /\ \A j \in 1..Len(history) :
              j # currentIdx + 1 => history'[j] = history[j]
         /\ HasCurrent(history, currentIdx) =>
              LET old == history[currentIdx + 1]
                  new == history'[currentIdx + 1] IN
                /\ new.id = old.id /\ new.url = old.url
                /\ new.prompt = old.prompt
                /\ Len(new.layers) = Len(old.layers)
                /\ new.baseLayout =
                     IF activeLayerId = BASE
                     THEN [old.baseLayout EXCEPT ![key] = value]
                     ELSE old.baseLayout
                /\ \A n \in 1..Len(old.layers) :
                     /\ new.layers[n].id = old.layers[n].id
                     /\ new.layers[n].url = old.layers[n].url
                     /\ new.layers[n].name = old.layers[n].name
                     /\ new.layers[n].layout =
                          IF old.layers[n].id = activeLayerId
                          THEN [old.layers[n].layout EXCEPT ![key] = value]
                          ELSE old.layers[n].layout]_vars

(* The second of two layers was moved, the first and the base were not *)
C5_LayerTweaked ==
  /\ HasCurrent(history, currentIdx)
  /\ LET cv == CurrentVersion(history, currentIdx) IN
       /\ Len(cv.layers) = 2
       /\ cv.layers[2].layout.translateX = 50
       /\ cv.layers[2].layout.scale = 50
       /\ cv.layers[1].layout.translateX = 0
       /\ cv.baseLayout = DEFAULT_LAYOUT

C7_FailureFrame ==
  [][\A k \in 1..MaxFailOps :
       /\ EditFail(k) =>
            /\ history' = history /\ currentIdx' = currentIdx
            /\ ~isProcessing' /\ error' = ERR_EDIT /\ prompt' = prompt
       /\ GenerateFail(k) =>
            /\ history' = history /\ currentIdx' = currentIdx
            /\ ~isProcessing' /\ error' = ERR_GENERATE
            /\ prompt' = prompt]_vars

(* A synthesis of the typed prompt failed: the prompt is still there *)
C7_EditFailed ==
  /\ error = ERR_EDIT /\ ~isProcessing /\ ops = <<>>
  /\ prompt = "glow" /\ Len(history) = 1 /\ currentIdx = 0


(* C8 (SpecBusy): a handler that issues an asynchronous call has set the  *)
(* busy flag by then; every return of such a call, with a result or with  *)
(* an error, clears it; and once no call is outstanding the session is    *)
(* not busy.                                                               *)
C8_BusyLifecycle ==
  [][/\ Len(ops') > Len(ops) => isProcessing'
     /\ Len(ops') < Len(ops) => ~isProcessing'
     /\ ops' = <<>> => ~isProcessing']_vars

(* A chat request failed on a version whose base image does not decode:  *)
(* its error is shown and the session is idle again                       *)
C8_IdleAfterFailure ==
  /\ error = ERR_CHAT /\ ops = <<>> /\ ~isProcessing
  /\ Len(history) = 1 /\ history[1].url = "corrupt"


----------------------------------------------------------------------------
(* Properties of the projects *)

(* C9 (SpecSnap): no project ever has more than MAX_SNAPSHOTS snapshots;  *)
(* createSnapshot puts the current version, with the time of the call as  *)
(* its timestamp, in front of the active project's snapshots, keeps the   *)
(* earlier ones behind it in their order and drops only what lies beyond  *)
(* the cap, the oldest.                                                    *)
C9_SnapshotCap ==
  [][/\ \A k \in 1..Len(projects') :
          Len(projects'[k].snapshots) <= MAX_SNAPSHOTS
     /\ (CreateSnapshot /\ HasProject(projects, activeProjectId)) =>
          LET old == ProjectOf(projects, activeProjectId).snapshots
              new == ProjectOf(projects', activeProjectId).snapshots IN
            /\ Len(new) = IF Len(old) < MAX_SNAPSHOTS
                          THEN Len(old) + 1 ELSE MAX_SNAPSHOTS
            /\ new[1] = [history[currentIdx + 1] EXCEPT !.timestamp = clock]
            /\ \A n \in 2..Len(new) : new[n] = old[n - 1]]_vars

(* The store holds the project with MAX_SNAPSHOTS snapshots, the oldest   *)
(* taken at time 0; one more was taken since: still MAX_SNAPSHOTS, each   *)
(* moved back by one, and the one of time 0 is gone                       *)
C9_OldestDropped ==
  /\ Len(db) = 1 /\ Len(projects) = 1
  /\ Len(db[1].snapshots) = MAX_SNAPSHOTS
  /\ Len(projects[1].snapshots) = MAX_SNAPSHOTS
  /\ \A n \in 2..MAX_SNAPSHOTS :
       projects[1].snapshots[n] = db[1].snapshots[n - 1]
  /\ db[1].snapshots[MAX_SNAPSHOTS].timestamp = 0
  /\ projects[1].snapshots[MAX_SNAPSHOTS].timestamp = 1


(* C2 (SpecSess): in every reachable state the current index is -1 or an  *)
(* index of history.                                                       *)
C2_CurrentIdxValid ==
  currentIdx = -1 \/ (0 <= currentIdx /\ currentIdx < Len(history))

(* The stored project was loaded, edited, and its first version selected  *)
(* again                                                                   *)
C2_LoadedEditedSelected ==
  /\ activeProjectId = StoredProject.id
  /\ Len(history) = 2 /\ currentIdx = 0
  /\ history[1] = StoredVersion /\ history[2].url = EDIT_URL

(* C10 (SpecProj): storeCurrentProjectState is an upsert.  With the       *)
(* active id in the project list, that project gets the current version's *)
(* url as thumbnail, the whole history as revision stack and the time of  *)
(* the call, and nothing else changes.  In every other case a project     *)
(* with a fresh id, the whole history and no snapshots is put in front of *)
(* the list and becomes the active project.                                *)
C10_Upsert ==
  [][StoreCurrentProjectState =>
       IF HasProject(projects, activeProjectId)
       THEN /\ activeProjectId' = activeProjectId
            /\ Len(projects') = Len(projects)
            /\ \A k \in 1..Len(projects) :
                 projects'[k] =
                   IF projects[k].id = activeProjectId
                   THEN [projects[k] EXCEPT
                           !.thumbnailUrl = history[currentIdx + 1].url,
                           !.revisionStack = history,
                           !.timestamp = clock]
                   ELSE projects[k]
       ELSE /\ Len(projects') = Len(projects) + 1
            /\ \A k \in 1..Len(projects) :
                 /\ projects'[k + 1] = projects[k]
                 /\ projects'[1].id # projects[k].id
            /\ projects'[1].revisionStack = history
            /\ projects'[1].snapshots = <<>>
            /\ activeProjectId' = projects'[1].id]_vars

(* C11 (SpecLoad): loadProject(P) makes P the active project, makes P's    *)
(* revision stack the history, makes its last version the current one and *)
(* takes the base layout of that version; with an empty stack the current *)
(* index is -1 and the base layout the default one.                        *)
C11_LoadProject ==
  [][\A k \in 1..MaxLoadProjects :
       LoadProject(k) =>
         LET P == projects[k]
             n == Len(P.revisionStack) IN
           /\ activeProjectId' = P.id
           /\ history' = P.revisionStack
           /\ currentIdx' = n - 1
           /\ baseLayout' = IF n > 0 THEN P.revisionStack[n].baseLayout
                            ELSE DEFAULT_LAYOUT]_vars

(* The stored project got a second version, whose base was moved, and was *)
(* saved while its first version was current; it is loaded again: the     *)
(* second version is current, with its base layout                         *)
C11_LoadedAtLast ==
  /\ activeProjectId = StoredProject.id
  /\ Len(projects) = 1 /\ db = projects /\ saves = <<>>
  /\ projects[1].thumbnailUrl = StoredVersion.url
  /\ history = projects[1].revisionStack
  /\ Len(history) = 2 /\ currentIdx = 1
  /\ history[1].baseLayout = DEFAULT_LAYOUT
  /\ history[2].baseLayout.translateX = 50
  /\ baseLayout = history[2].baseLayout


(* C12 (SpecProj): confirming the deletion of project id takes exactly    *)
(* that project out of the in-memory list, the others staying in their    *)
(* order, and hands the reduced list to the store; when the write has     *)
(* returned, the session is reset to the empty state if id was the active *)
(* project, and keeps its history, current index and active project       *)
(* otherwise.                                                              *)
C12_DeleteConfirmed ==
  [][/\ ModalConfirmDelete =>
          /\ projects' = SelectSeq(projects, LAMBDA p : p.id # modal.id)
          /\ saves'[Len(saves')].payload = projects'
     /\ ((PersistOk \/ PersistFail) /\ Head(saves).cont = "delete") =>
          IF activeProjectId = Head(saves).id
          THEN /\ history' = <<>> /\ currentIdx' = NO_VERSION
               /\ activeProjectId' = NO_PROJECT
               /\ baseLayout' = DEFAULT_LAYOUT
          ELSE /\ history' = history /\ currentIdx' = currentIdx
               /\ activeProjectId' = activeProjectId]_vars

(* C13 (SpecStore): save/load round trip.  What loadProjectsFromDB         *)
(* returns after a saveProjectsToDB, with no other save in between, is    *)
(* the saved list as a set: the same number of projects, each equal to a  *)
(* saved one in its id and in its whole revision stack (version ids in    *)
(* their order, layers in their order, layout values).                     *)
C13_RoundTrip ==
  [][/\ PersistOk =>
          LET saved  == Head(saves).payload
              loaded == LoadProjectsFromDB(db') IN
            /\ Len(loaded) = Len(saved)
            /\ \A k \in 1..Len(saved) :
                 \E n \in 1..Len(loaded) :
                   /\ loaded[n].id = saved[k].id
                   /\ loaded[n].revisionStack = saved[k].revisionStack
                   /\ loaded[n] = saved[k]
     /\ InitialLoadDone =>
          /\ Len(projects') = Len(db)
          /\ \A k \in 1..Len(db) : projects'[k] = db[k]]_vars

(* Two projects were saved, the later one in front of the list; the page  *)
(* was loaded again and the list read from the store: both projects with  *)
(* their revision stacks, in the order of their ids                        *)
C13_LoadedAgain ==
  /\ ~loading /\ history = <<>> /\ nextProjectId = 3 /\ saves = <<>>
  /\ Len(projects) = 2 /\ projects = db
  /\ projects[1].id = 1 /\ projects[2].id = 2
  /\ Len(projects[1].revisionStack) = 1
  /\ projects[1].revisionStack[1].id = 1
  /\ projects[2].revisionStack[1].id = 2

(* C14 (SpecProj): when the store fails during a save or during the      *)
(* initial load, the failing step shows the storage error and leaves the  *)
(* in-memory project list, history and the current index as they are.     *)
C14_StoreFailureShown ==
  [][(PersistFail \/ InitialLoadFail) =>
       /\ error' = ERR_STORAGE
       /\ projects' = projects
       /\ history' = history
       /\ currentIdx' = currentIdx]_vars

----------------------------------------------------------------------------
(* Properties of the compositor *)

(* C15 (SpecCompose): when the base image does not decode, an edit, a     *)
(* chat request with the image and an export each end with an error       *)
(* shown, with history and the current index as they were, and without    *)
(* going on to their output.                                               *)
C15_BaseDecodeFatal ==
  [][\A k \in 1..MaxComposeOps :
       (\/ EditFail(k) /\ ops[k].stage = "compose"
        \/ ChatFail(k) /\ ops[k].stage = "compose"
        \/ ExportFail(k)) =>
         /\ error' # NO_ERROR
         /\ history' = history
         /\ currentIdx' = currentIdx
         /\ ops' = Without(ops, k)]_vars

(* C16 (SpecRaster): compositor robustness.  The raster of an export is   *)
(* the black fill, the base, and then exactly the layers whose image      *)
(* loads, each where its layout puts it: a layer whose image does not     *)
(* load is left out and the layers behind it in the list are painted.     *)
C16_UndecodableSkipped ==
  [][\A k \in 1..Len(ops) :
       ExportOk(k) =>
         LET cv   == CurrentVersion(ops[k].hist, ops[k].idx)
             good == SelectSeq(cv.layers, LAMBDA l : Decodable(l.url)) IN
           /\ Len(downloaded') = 2 + Len(good)
           /\ downloaded'[2].src = cv.url
           /\ \A n \in 1..Len(good) :
                /\ downloaded'[2 + n].src = good[n].url
                /\ <<downloaded'[2 + n]>> =
                     DrawWithLayout(good[n].url, good[n].layout)]_vars

(* A version whose first layer does not load and whose second layer was   *)
(* moved to the right was exported: the fill, the base and the second     *)
(* layer, 320 pixels wide with its left edge at 1120                       *)
C16_SecondOfTwoPainted ==
  /\ HasCurrent(history, currentIdx) /\ ops = <<>>
  /\ LET cv == CurrentVersion(history, currentIdx) IN
       /\ Len(cv.layers) = 2
       /\ cv.layers[1].url = "corrupt" /\ cv.layers[2].url = "fileA"
       /\ cv.layers[2].layout.translateX = 50
       /\ Len(downloaded) = 3
       /\ downloaded[1].src = "#000000"
       /\ downloaded[2].src = cv.url
       /\ downloaded[3].src = "fileA"
       /\ downloaded[3].x = 1120 * PX /\ downloaded[3].w = 320 * PX

(* C17 (SpecRaster): paint order.  The first rectangle of an exported     *)
(* raster is the black fill over the whole canvas, so every pixel shows   *)
(* at least the fill; the second is the base; the painted layers follow   *)
(* in the order of the layer list, so that where two of them overlap the  *)
(* pixel does not show the earlier one.                                    *)
C17_PaintOrder ==
  [][\A k \in 1..Len(ops) :
       ExportOk(k) =>
         LET cv  == CurrentVersion(ops[k].hist, ops[k].idx)
             pos == [n \in 1..Len(cv.layers) |->
                      2 + Cardinality({m \in 1..n :
                                         Decodable(cv.layers[m].url)})]
             drawn == {n \in 1..Len(cv.layers) : Decodable(cv.layers[n].url)}
         IN
           /\ downloaded'[1].src = "#000000"
           /\ downloaded'[1].x = 0 /\ downloaded'[1].y = 0
           /\ downloaded'[1].w = CANVAS_WIDTH * PX
           /\ downloaded'[1].h = CANVAS_HEIGHT * PX
           /\ downloaded'[2].src = cv.url
           /\ \A i, j \in drawn : i < j => pos[i] < pos[j]
           /\ \A n \in drawn :
                <<downloaded'[pos[n]]>> =
                  DrawWithLayout(cv.layers[n].url, cv.layers[n].layout)
           /\ \A c \in SampleColumns, r \in SampleRows :
                /\ TopAt(downloaded', c, r) >= 1
                /\ \A i, j \in drawn :
                     (/\ i < j
                      /\ Covers(downloaded'[pos[i]], c, r)
                      /\ Covers(downloaded'[pos[j]], c, r)) =>
                       TopAt(downloaded', c, r) >= pos[j]]_vars

(* Two layers in the middle of the canvas over a base moved to the right  *)
(* were exported: the centre pixel shows the second layer, the pixel to   *)
(* the left of both layers the black fill                                  *)
C17_SecondLayerOnTop ==
  /\ Len(downloaded) = 4
  /\ downloaded[2].x = 960 * PX
  /\ downloaded[3] = downloaded[4]
  /\ TopAt(downloaded, 640, 360) = 4
  /\ TopAt(downloaded, 320, 360) = 1
  /\ TopAt(downloaded, 1120, 360) = 2

(* C18 (SpecPlace): placement.  An image of natural size (w, h) under a   *)
(* layout with all its fields is painted w*scale*stretchX wide and        *)
(* h*scale*stretchY high, its left edge at                                *)
(* (canvasWidth - width)/2 + translateX*canvasWidth/100 and its top edge  *)
(* at (canvasHeight - height)/2 + translateY*canvasHeight/100, on the     *)
(* canvas of 1280 by 720.  (scale and stretch are in hundredths, lengths  *)
(* in 1/PX pixel; the equations for the edges are the claim's, doubled.)   *)
C18_Placement ==
  [][(ExportOk(1) /\ LayoutKeys \subseteq DOMAIN ops[1].bl) =>
       LET L    == ops[1].bl
           img  == ImageSize(CurrentVersion(ops[1].hist, ops[1].idx).url)
           rect == downloaded'[2] IN
         /\ CANVAS_WIDTH = 1280 /\ CANVAS_HEIGHT = 720
         /\ rect.w = img.width * L.scale * L.stretchX * (PX \div 10000)
         /\ rect.h = img.height * L.scale * L.stretchY * (PX \div 10000)
         /\ 2 * rect.x =
              (CANVAS_WIDTH * PX - rect.w)
                + 2 * (L.translateX * CANVAS_WIDTH * (PX \div 100))
         /\ 2 * rect.y =
              (CANVAS_HEIGHT * PX - rect.h)
                + 2 * (L.translateY * CANVAS_HEIGHT * (PX \div 100))]_vars

(* A picked file of 640 by 360 under scale 1.5, stretch 0.5 by 2 and      *)
(* translate 25% by 10% was exported: 480 by 1080, at (720, -108)          *)
C18_ScaledAndMoved ==
  /\ HasCurrent(history, currentIdx) /\ ops = <<>>
  /\ CurrentVersion(history, currentIdx).url = "fileA"
  /\ baseLayout = [scale |-> 150, stretchX |-> 50, stretchY |-> 200,
                   translateX |-> 25, translateY |-> 10]
  /\ Len(downloaded) = 2
  /\ downloaded[2] = [src |-> "fileA", x |-> 720 * PX, y |-> -108 * PX,
                      w |-> 480 * PX, h |-> 1080 * PX]

(* C19 (SpecPlace): normalization.  The raster of an export under a       *)
(* layout that lacks some of its five fields is the raster under the same *)
(* layout with the defaults in their place (scale, stretchX and stretchY  *)
(* 1, translateX and translateY 0).                                        *)
C19_Normalized ==
  [][ExportOk(1) =>
       LET cv == CurrentVersion(ops[1].hist, ops[1].idx) IN
         downloaded' = ComposeImage(cv.url, WithDefaults(ops[1].bl),
                                    cv.layers)]_vars

----------------------------------------------------------------------------
(* Properties of the handlers' input validation *)

C21_RejectedEditNoOp ==
  [][\A customPrompt \in {"", " ", QUICK_PROMPT} :
       (/\ HandleEditCall(customPrompt)
        /\ \/ ~HasCurrent(history, currentIdx)
           \/ /\ Trim(OrElse(customPrompt, prompt)) = ""
              /\ editMode # "transform") =>
         /\ isProcessing' = isProcessing
         /\ ops' = ops
         /\ error' = error
         /\ history' = history /\ currentIdx' = currentIdx]_vars

(* A version is current, the prompt box holds a blank, the mode is        *)
(* styles and nothing is outstanding: handleEdit() returns at once        *)
C21_BlankPromptIdle ==
  /\ HasCurrent(history, currentIdx)
  /\ prompt = " " /\ editMode = "styles"
  /\ ~isProcessing /\ ops = <<>> /\ error = NO_ERROR
  /\ Len(history) = 1

(* C22 (SpecSubmit): selecting index i leaves history as it is; with i    *)
(* in range i becomes the current index; with i out of range no version   *)
(* is current afterwards and the session keeps its base layout.           *)
C22_SelectFrame ==
  [][\A i \in -1..MaxSubmitVersions :
       SetCurrentIdxCall(i) =>
         /\ history' = history
         /\ (i >= 0 /\ i < Len(history)) =>
              /\ currentIdx' = i
              /\ HasCurrent(history', currentIdx')
              /\ CurrentVersion(history', currentIdx') = history[i + 1]
         /\ ~(i >= 0 /\ i < Len(history)) =>
              /\ ~HasCurrent(history', currentIdx')
              /\ baseLayout' = baseLayout]_vars

(* The first of two versions has been selected *)
C22_FirstOfTwoSelected ==
  /\ Len(history) = 2 /\ currentIdx = 0
  /\ ops = <<>>

(* C23 (Spec): a step that adds a layer, by a finished layer upload or by *)
(* accepting a camera frame for a layer, appends behind the version that  *)
(* is current one version with that version's url and baseLayout and its  *)
(* layers followed by the new layer, keeps the versions up to the current *)
(* one, and makes the new version current.                                *)
C23_LayerAdded ==
  [][(\/ \E k \in 1..MaxOps : LayerUploadOk(k)
      \/ /\ ConfirmCapture
         /\ importTarget = "layer" /\ HasCurrent(history, currentIdx)) =>
       /\ HasCurrent(history, currentIdx)
       /\ Len(history') = currentIdx + 2
       /\ currentIdx' = currentIdx + 1
       /\ SubSeq(history', 1, currentIdx + 1) = SubSeq(history, 1, currentIdx + 1)
       /\ LET cv == CurrentVersion(history, currentIdx)
              nv == CurrentVersion(history', currentIdx') IN
            /\ nv.url = cv.url
            /\ nv.baseLayout = cv.baseLayout
            /\ Len(nv.layers) = Len(cv.layers) + 1
            /\ SubSeq(nv.layers, 1, Len(cv.layers)) = cv.layers
            /\ nv.layers[Len(nv.layers)].id = activeLayerId']_vars

----------------------------------------------------------------------------
(* Properties of the milestones *)

(* C24 (SpecStore): createSnapshot without a current version or without   *)
(* an active project changes nothing: the project list with its           *)
(* snapshots, history, the current index and the store stay as they are,  *)
(* no write to the store is queued and no error is raised.                *)
C24_SnapshotRejected ==
  [][(/\ CreateSnapshotCall
      /\ \/ ~HasCurrent(history, currentIdx)
         \/ activeProjectId = NO_PROJECT) =>
       /\ projects' = projects
       /\ history' = history /\ currentIdx' = currentIdx
       /\ db' = db /\ saves' = saves
       /\ error' = error]_vars

(* A version of a project that was never saved is current while the list  *)
(* holds a saved project, and nothing is outstanding: Mark Milestone      *)
(* returns at once                                                         *)
C24_UnsavedInEditor ==
  /\ HasCurrent(history, currentIdx)
  /\ activeProjectId = NO_PROJECT
  /\ Len(projects) = 1 /\ db = projects
  /\ saves = <<>> /\ ops = <<>> /\ error = NO_ERROR

(* C25 (SpecStore): createSnapshot leaves history and the current index   *)
(* as they are, and in the project list it changes nothing but the        *)
(* snapshots of the active project.                                        *)
C25_SnapshotFrame ==
  [][CreateSnapshotCall =>
       /\ history' = history /\ currentIdx' = currentIdx
       /\ activeProjectId' = activeProjectId
       /\ Len(projects') = Len(projects)
       /\ \A k \in 1..Len(projects) :
            /\ projects'[k] =
                 [projects[k] EXCEPT !.snapshots = projects'[k].snapshots]
            /\ projects[k].id # activeProjectId =>
                 projects'[k] = projects[k]]_vars

(* Two projects, the active one with a milestone and the other without *)
C25_OneOfTwoMarked ==
  /\ Len(projects) = 2
  /\ \E k \in 1..2 :
       /\ projects[k].id = activeProjectId
       /\ Len(projects[k].snapshots) = 1
       /\ Len(projects[3 - k].snapshots) = 0
       /\ projects[k].revisionStack = history

(* C26 (SpecStore): every project of the list has a revisionStack that is *)
(* not empty; a save happens with a current version only and leaves the   *)
(* whole of history, which is not empty, as the revisionStack of the      *)
(* active project.                                                         *)
C26_SavedStackNotEmpty ==
  [][/\ \A k \in 1..Len(projects') : Len(projects'[k].revisionStack) > 0
     /\ StoreCurrentProjectState =>
          /\ HasCurrent(history, currentIdx)
          /\ HasProject(projects', activeProjectId')
          /\ ProjectOf(projects', activeProjectId').revisionStack = history
          /\ history # <<>>]_vars

(* Two projects were saved and stored, the second one is open: each holds *)
(* the history it was saved with                                          *)
C26_TwoSaved ==
  /\ Len(projects) = 2 /\ activeProjectId = projects[1].id
  /\ projects[1].revisionStack = history /\ Len(history) = 1
  /\ Len(projects[2].revisionStack) = 1
  /\ projects[2].revisionStack # history
  /\ saves = <<>>

----------------------------------------------------------------------------
(* Properties of the layers *)

(* C27 (SpecRemove): with layer ids that are fresh, the layers of every     *)
(* version of history have pairwise distinct ids.                         *)
C27_LayerIdsDistinct ==
  \A n \in 1..Len(history) :
    \A a, b \in 1..Len(history[n].layers) :
      history[n].layers[a].id = history[n].layers[b].id => a = b

(* Two layers were added and the first was removed: three versions with   *)
(* one, two and one layers, the last one keeping the second layer         *)
C27_AddedAddedRemoved ==
  /\ Len(history) = 4 /\ currentIdx = 3
  /\ Len(history[3].layers) = 2
  /\ Len(history[4].layers) = 1
  /\ history[4].layers[1] = history[3].layers[2]

----------------------------------------------------------------------------
(* Properties of the camera *)

(* C28 (SpecCamera): a step that stops the camera, Snap Now, Exit or the  *)
(* close button of the import dialog, leaves no interval of the countdown *)
(* set, so no tick of the countdown and no capture by it follows.         *)
C28_StopClearsCountdown ==
  [][(\/ SetCapturedImage(CAMERA_URL)
      \/ SetCameraActive(FALSE)
      \/ CloseImportModal) =>
       ~countdownInterval']_vars

----------------------------------------------------------------------------
(* Properties of the remote edit *)

(* C29 (Spec): the step in which a remote edit succeeds appends behind    *)
(* the current version exactly one version, with the result of the        *)
(* service as url, no layers, the default base layout and the submitted   *)
(* prompt, keeps the versions up to the current one, makes the new        *)
(* version current, resets the session's base layout to the default,      *)
(* empties the prompt box and clears the busy flag.                       *)
C29_EditAppended ==
  [][\A k \in 1..MaxOps :
       EditOk(k) =>
         /\ HasCurrent(history, currentIdx)
         /\ Len(history') = currentIdx + 2
         /\ currentIdx' = currentIdx + 1
         /\ SubSeq(history', 1, currentIdx + 1) =
              SubSeq(history, 1, currentIdx + 1)
         /\ LET nv == CurrentVersion(history', currentIdx') IN
              /\ nv.url = EDIT_URL
              /\ nv.layers = <<>>
              /\ nv.baseLayout = DEFAULT_LAYOUT
              /\ nv.prompt = ops[k].p
         /\ baseLayout' = DEFAULT_LAYOUT
         /\ prompt' = ""
         /\ isProcessing' = FALSE]_vars

----------------------------------------------------------------------------
(* Properties of the session's base layout *)

(* C30 (SpecLayout): whenever a version is current, the session's base layout,  *)
(* which preview, export and edit submission use, is the baseLayout that  *)
(* history stores for the current version.                                 *)
C30_LayoutInSync ==
  HasCurrent(history, currentIdx) =>
    baseLayout = CurrentVersion(history, currentIdx).baseLayout

(* The base of the first version was moved, an edit of it succeeded and   *)
(* the first version was selected again: the session shows the moved      *)
(* layout of the first version, the second version has the default one    *)
C30_BackOnTweaked ==
  /\ Len(history) = 2 /\ currentIdx = 0
  /\ history[1].baseLayout # DEFAULT_LAYOUT
  /\ history[2].baseLayout = DEFAULT_LAYOUT
  /\ history[2].url = EDIT_URL
  /\ baseLayout = history[1].baseLayout
  /\ ops = <<>>

----------------------------------------------------------------------------
(* Properties of concurrent operations *)

(* C31 (Spec): the busy flag is set in every state in which an operation  *)
(* that set it, an import, a layer upload, an edit, a generation or a     *)
(* chat request, is outstanding.                                           *)
C31_BusyWhileOutstanding ==
  (\E k \in 1..Len(ops) :
     ops[k].kind \in {"base", "layer", "edit", "generate", "chat"}) =>
    isProcessing

(* C32 (SpecSess): when history is what a project switch installed, the   *)
(* revisionStack of the active project, or nothing after a new project,   *)
(* the completion of a generation or an edit builds on it: it appends one *)
(* version behind the current one and keeps the versions up to there.     *)
C32_SwitchKept ==
  [][\A k \in 1..MaxSessOps :
       (/\ GenerateOk(k) \/ EditOk(k)
        /\ \/ /\ HasProject(projects, activeProjectId)
              /\ history = ProjectOf(projects, activeProjectId).revisionStack
           \/ activeProjectId = NO_PROJECT /\ history = <<>>) =>
         /\ Len(history') = currentIdx + 2
         /\ SubSeq(history', 1, currentIdx + 1) =
              SubSeq(history, 1, currentIdx + 1)]_vars

(* C33 (SpecProj): the write of a save or of a snapshot keeps every       *)
(* project that the store held and that is not the active one: it is      *)
(* still in the store afterwards, with the same contents.                 *)
C33_OthersKept ==
  [][(PersistOk /\ Head(saves).cont \in {"save", "snapshot"}) =>
       \A j \in 1..Len(db) :
         db[j].id # activeProjectId =>
           \E i \in 1..Len(db') : db'[i] = db[j]]_vars

----------------------------------------------------------------------------
(* Properties of the stored copies *)

(* C34 (SpecIsolate): a step that edits the session, a slider move or a   *)
(* layer added or removed, changes neither the project list with its      *)
(* snapshots and revision stacks nor the store, and                       *)
(* a slider move changes no version of history but the current one.       *)
C34_StoredIsolated ==
  [][/\ (\/ \E key \in TweakKeys, value \in TweakValues :
              TweakLayout(key, value)
         \/ ConfirmCapture
         \/ \E id \in 1..MaxIsolateLayers : RemoveLayer(id)) =>
          projects' = projects /\ db' = db
     /\ \A key \in TweakKeys, value \in TweakValues :
          TweakLayout(key, value) =>
            /\ Len(history') = Len(history)
            /\ \A n \in 1..Len(history) :
                 n # currentIdx + 1 => history'[n] = history[n]]_vars

(* The saved and marked project holds two versions that carry the same    *)
(* layer; the layer was then moved in the current, last version: the      *)
(* version before it, the revision stack, the snapshot and the store      *)
(* still have the layer where it was                                       *)
C34_MovedAfterSave ==
  /\ Len(history) = 3 /\ currentIdx = 2
  /\ Len(history[2].layers) = 1 /\ Len(history[3].layers) = 2
  /\ history[3].layers[1].id = history[2].layers[1].id
  /\ history[3].layers[1].layout # history[2].layers[1].layout
  /\ Len(projects) = 1 /\ db = projects
  /\ Len(projects[1].revisionStack) = 3
  /\ projects[1].revisionStack[3].layers[1] = history[2].layers[1]
  /\ Len(projects[1].snapshots) = 1
  /\ projects[1].snapshots[1].layers[1] = history[2].layers[1]

----------------------------------------------------------------------------
(* Properties of the active layer *)

(* C35 (SpecEdit): in every reachable state the active layer id is 'base' *)
(* or the id of a layer of the current version.                           *)
C35_ActiveLayerExists ==
  \/ activeLayerId = BASE
  \/ /\ HasCurrent(history, currentIdx)
     /\ activeLayerId \in LayerIds(CurrentVersion(history, currentIdx))

----------------------------------------------------------------------------
(* Properties of the save indicator *)

(* C36 (SpecProj): when the write of a save or of a snapshot fails, the   *)
(* step shows the storage error and does not turn the save indicator on.  *)
C36_IndicatorOnlyOnSuccess ==
  [][(PersistFail /\ Head(saves).cont \in {"save", "snapshot"}) =>
       /\ saveIndicator' = saveIndicator
       /\ error' = ERR_STORAGE]_vars

----------------------------------------------------------------------------
(* Properties of the countdown timer *)

(* C37 (SpecCamera): at most one interval of the countdown is scheduled   *)
(* at any time, and it is the one the ref holds; starting a countdown     *)
(* leaves exactly one.  While the interval is set the countdown is        *)
(* between 1 and the seconds it was started with, every tick above 1      *)
(* takes one second off, and the tick at 1 clears the interval and sets   *)
(* the countdown to null, whether or not the video element is there to    *)
(* take the frame from: a countdown of n seconds ends at its n-th tick.   *)
C37_OneTimerCountsDown ==
  /\ [](/\ intervals <= 1
        /\ countdownInterval <=> intervals = 1
        /\ IF countdownInterval
           THEN countdown \in 1..AUTO_CAPTURE_SECONDS
           ELSE countdown = 0)
  /\ [][StartAutoCapture =>
          intervals' = 1 /\ countdown' = AUTO_CAPTURE_SECONDS]_vars
  /\ [][CountdownTick =>
          IF countdown > 1
          THEN countdown' = countdown - 1 /\ intervals' = 1
          ELSE intervals' = 0 /\ ~countdownInterval' /\ countdown' = 0]_vars

(* A countdown is at its last second and the camera was left while it     *)
(* ran: the tick at 1 finds no video element to take the frame from.      *)
C37_LastSecondCameraOff ==
  /\ countdownInterval /\ intervals = 1
  /\ countdown = 1
  /\ ~isCameraActive /\ capturedImage = ""

============================================================================
